---- MODULE Spec2Model ----
(***************************************************************************)
(* Model of two parts of the file browser of ART:                          *)
(*   - the inspector pane's bounded image cache (rtgui/pathutils.cc,       *)
(*     classes InspectorBuffer and InspectorArea), checked under Spec;     *)
(*   - the batch rename/copy planner (rtgui/filecatalog_rename.cc,         *)
(*     get_new_name, get_targets, run_with_progress, copyMoveRequested),   *)
(*     checked under SpecRename.                                           *)
(* Strings are sequences of one-character strings, so that path handling   *)
(* is computed character by character as the code computes it.             *)
(***************************************************************************)
EXTENDS Integers, Sequences, FiniteSets, TLC

(***************************************************************************)
(* Bounds of the model.                                                    *)
(***************************************************************************)
\* options.maxInspectorBuffers ranges over 0 .. MaxInspectorBuffers
MaxInspectorBuffers == 2

\* the largest number of entries selected for one copy or move
BatchSize == 3

\* the largest length of the enumerated pattern texts
MaxPatternLen == 3

\* the largest number of evaluations of one compiled pattern
MaxEvaluations == 2

\* the longest file name handed to the name functions
MaxNameLen == 4

\* the largest number of callbacks waiting in the Inspector's idle_register_
MaxPendingIdle == 2

\* number of decodable image files the inspector can be pointed at
NumImages == 3

(***************************************************************************)
(* Strings.                                                                *)
(***************************************************************************)
NPOS == -1

Max(a, b) == IF a >= b THEN a ELSE b

Min(a, b) == IF a <= b THEN a ELSE b

\* G_IS_DIR_SEPARATOR on a non-Windows build
IsDirSeparator(c) == c = "/"

\* isspace() in the C locale (the vertical tab has no TLA+ escape)
IsSpace(c) == c \in {" ", "\t", "\n", "\f", "\r"}

\* s.substr(pos, n) with 0-based pos; n = NPOS means "to the end"
Substr(s, pos, n) ==
    LET last == IF n = NPOS THEN Len(s) ELSE Min(Len(s), pos + n)
    IN  SubSeq(s, pos + 1, last)

\* s.find_last_of(chars): 0-based index of the last character of s that
\* satisfies the test, or NPOS
FindLastDot(s) ==
    LET idx == {i \in 1..Len(s) : s[i] = "."}
    IN  IF idx = {} THEN NPOS ELSE (CHOOSE i \in idx : \A j \in idx : j <= i) - 1

FindLastWhitespace(s) ==
    LET idx == {i \in 1..Len(s) : IsSpace(s[i])}
    IN  IF idx = {} THEN NPOS ELSE (CHOOSE i \in idx : \A j \in idx : j <= i) - 1

\* number of trailing directory separators of s
RECURSIVE TrailingSeps(_)
TrailingSeps(s) ==
    IF Len(s) > 0 /\ IsDirSeparator(s[Len(s)])
    THEN 1 + TrailingSeps(SubSeq(s, 1, Len(s) - 1))
    ELSE 0

\* number of leading directory separators of s
RECURSIVE LeadingSeps(_)
LeadingSeps(s) ==
    IF Len(s) > 0 /\ IsDirSeparator(s[1])
    THEN 1 + LeadingSeps(Tail(s))
    ELSE 0

LastSepIndex(s) ==
    LET idx == {i \in 1..Len(s) : IsDirSeparator(s[i])}
    IN  IF idx = {} THEN 0 ELSE CHOOSE i \in idx : \A j \in idx : j <= i

\* Glib::path_get_basename (g_path_get_basename)
path_get_basename(fn) ==
    IF Len(fn) = 0 THEN <<".">>
    ELSE LET stripped == SubSeq(fn, 1, Len(fn) - TrailingSeps(fn))
         IN  IF Len(stripped) = 0 THEN <<"/">>
             ELSE SubSeq(stripped, LastSepIndex(stripped) + 1, Len(stripped))

\* Glib::path_get_dirname (g_path_get_dirname)
path_get_dirname(fn) ==
    LET k == LastSepIndex(fn)
    IN  IF k = 0 THEN <<".">>
        ELSE LET d == SubSeq(fn, 1, k - 1)
                 dd == SubSeq(d, 1, Len(d) - TrailingSeps(d))
             IN  IF Len(dd) = 0 THEN <<"/">> ELSE dd

\* g_path_is_absolute on a non-Windows build
\* g_path_is_absolute that finds no path absolute
path_is_absoluteNever(fn) == FALSE

path_is_absolute(fn) == Len(fn) > 0 /\ IsDirSeparator(fn[1])

\* Glib::build_filename(a, b) (g_build_filename with two elements): empty
\* elements are ignored, the trailing separators of a and the leading
\* separators of b are replaced by a single separator
build_filename(a, b) ==
    IF Len(a) = 0 THEN
        IF Len(b) = 0 THEN <<>> ELSE b
    ELSE IF Len(b) = 0 THEN a
    ELSE LET a1 == SubSeq(a, 1, Len(a) - TrailingSeps(a))
             b1 == SubSeq(b, LeadingSeps(b) + 1, Len(b))
         IN  IF Len(b1) = 0
             THEN a1 \o <<"/">>
             ELSE a1 \o <<"/">> \o b1

(***************************************************************************)
(* removeExtension / getExtension.                                         *)
(***************************************************************************)
HasExtension(bname) ==
    LET lastdot == FindLastDot(bname)
        lastwhitespace == FindLastWhitespace(bname)
    IN  lastdot # NPOS /\ (lastwhitespace = NPOS \/ lastdot > lastwhitespace)

removeExtension(filename) ==
    LET bname == path_get_basename(filename)
        lastdot == FindLastDot(bname)
        n == Len(filename) - (Len(bname) - lastdot)
    IN  IF HasExtension(bname)
        THEN (IF n < 0 THEN filename ELSE Substr(filename, 0, n))
        ELSE filename

getExtension(filename) ==
    LET bname == path_get_basename(filename)
        lastdot == FindLastDot(bname)
        pos == Len(filename) - (Len(bname) - lastdot) + 1
    IN  IF HasExtension(bname)
        THEN Substr(filename, Max(pos, 0), NPOS)
        ELSE <<>>

(***************************************************************************)
(* Rename patterns (rtgui/filecatalog_rename.cc).                          *)
(***************************************************************************)
\* the character U+2215 (division slash), written as one character
DivisionSlash == "U+2215"

Digits == <<"0", "1", "2", "3", "4", "5", "6", "7", "8", "9">>

IsDigit(c) == \E d \in 1..Len(Digits) : Digits[d] = c

DigitValue(c) == (CHOOSE d \in 1..Len(Digits) : Digits[d] = c) - 1

\* std::to_string(n) for n >= 0
RECURSIVE to_string(_)
to_string(n) ==
    IF n < 10 THEN <<Digits[n + 1]>>
    ELSE to_string(n \div 10) \o <<Digits[(n % 10) + 1]>>

\* std::string(k, '0')
RECURSIVE Zeros(_)
Zeros(k) == IF k <= 0 THEN <<>> ELSE <<"0">> \o Zeros(k - 1)

LowerLetters == <<"a", "b", "c", "d", "e", "f", "g", "h", "i", "j", "k", "l", "m",
                  "n", "o", "p", "q", "r", "s", "t", "u", "v", "w", "x", "y", "z">>

UpperLetters == <<"A", "B", "C", "D", "E", "F", "G", "H", "I", "J", "K", "L", "M",
                  "N", "O", "P", "Q", "R", "S", "T", "U", "V", "W", "X", "Y", "Z">>

\* toupper / tolower in the C locale
ToUpper(c) ==
    IF \E k \in 1..Len(LowerLetters) : LowerLetters[k] = c
    THEN UpperLetters[CHOOSE k \in 1..Len(LowerLetters) : LowerLetters[k] = c]
    ELSE c

ToLower(c) ==
    IF \E k \in 1..Len(UpperLetters) : UpperLetters[k] = c
    THEN LowerLetters[CHOOSE k \in 1..Len(UpperLetters) : UpperLetters[k] = c]
    ELSE c

\* is_valid_char on a non-Windows build
is_valid_char(c, allow_sep) ==
    IF IsDirSeparator(c) THEN allow_sep ELSE c # "/"

\* make_valid that passes every character through
make_validPassesAll(s, allow_sep) == s

\* make_valid
make_valid(s, allow_sep) ==
    [k \in 1..Len(s) |->
        IF ~is_valid_char(s[k], allow_sep)
        THEN (IF s[k] = "/" THEN DivisionSlash ELSE "_")
        ELSE s[k]]

\* the fields of a compiled pattern
FixedPattern(s) == [kind |-> "Fixed", s |-> make_valid(s, TRUE), pad |-> 0]

\* a ProgressivePattern that forgets its pad width
ProgressivePatternUnpadded(pad) == [kind |-> "Progressive", s |-> <<>>, pad |-> 0]

ProgressivePattern(pad) == [kind |-> "Progressive", s |-> <<>>, pad |-> pad]

FramesDataPattern(c) == [kind |-> "FramesData", s |-> <<c>>, pad |-> 0]

TagPattern(tag) == [kind |-> "Tag", s |-> tag, pad |-> 0]

\* the directives that make a FramesDataPattern
FramesDataDirectives ==
    {"f", "e", "#", "m", "d", "Y", "y", "a", "A", "b", "B", "C", "M", "N",
     "r", "I", "F", "L", "l", "E", "s", "%"}

\* a search for ']' that takes the last character when there is none
RECURSIVE FindCloseOrLast(_, _)
FindCloseOrLast(s, j) ==
    IF j < Len(s) - 1 /\ s[j + 1] # "]" THEN FindCloseOrLast(s, j + 1) ELSE j

\* 0-based index of the first ']' of s at or after j, or Len(s) when none
RECURSIVE FindClose(_, _)
FindClose(s, j) ==
    IF j < Len(s) /\ s[j + 1] # "]" THEN FindClose(s, j + 1) ELSE j

\* the loop of parse_pattern from position i (0-based), with prev and the
\* fields compiled so far
RECURSIVE ParseFrom(_, _, _, _)
ParseFrom(s, i, prev, fields) ==
    LET n == Len(s)
    IN  IF i >= n
        THEN LET all == IF prev < n
                        THEN Append(fields, FixedPattern(Substr(s, prev, NPOS)))
                        ELSE fields
             IN  IF Len(all) = 0 THEN [ok |-> FALSE, pattern |-> all]
                 ELSE IF all[1].kind = "Fixed" /\ path_is_absolute(all[1].s)
                 THEN [ok |-> FALSE, pattern |-> all]
                 ELSE [ok |-> TRUE, pattern |-> all]
        ELSE IF s[i + 1] = "%"
        THEN LET f1 == IF prev # i
                       THEN Append(fields, FixedPattern(Substr(s, prev, i - prev)))
                       ELSE fields
             IN  IF i + 1 < n
                 THEN LET c == s[i + 2]
                          i2 == i + 2
                      IN  IF c = "n"
                          THEN IF i2 < n /\ IsDigit(s[i2 + 1])
                               THEN ParseFrom(s, i2 + 1, i2 + 1,
                                        Append(f1, ProgressivePattern(DigitValue(s[i2 + 1]))))
                               ELSE ParseFrom(s, i2, i2, Append(f1, ProgressivePattern(0)))
                          ELSE IF c = "T"
                          THEN IF i2 < n /\ s[i2 + 1] = "["
                               THEN LET j == FindClose(s, i2 + 1)
                                    IN  IF j < n
                                        THEN ParseFrom(s, j + 1, j + 1,
                                                 Append(f1, TagPattern(Substr(s, i2 + 1, j - i2 - 1))))
                                        ELSE [ok |-> FALSE, pattern |-> f1]
                               ELSE [ok |-> FALSE, pattern |-> f1]
                          ELSE IF c \in FramesDataDirectives
                          THEN ParseFrom(s, i2, i2, Append(f1, FramesDataPattern(c)))
                          ELSE [ok |-> FALSE, pattern |-> f1]
                 ELSE [ok |-> FALSE, pattern |-> f1]
        ELSE IF ~is_valid_char(s[i + 1], TRUE)
        THEN [ok |-> FALSE, pattern |-> fields]
        ELSE ParseFrom(s, i + 1, prev, fields)

\* parse_pattern: whether the text compiles, and out.pattern as it is left
parse_pattern(s) == ParseFrom(s, 0, 0, <<>>)

\* trim
RECURSIVE TrimLeft(_)
TrimLeft(s) == IF Len(s) > 0 /\ IsSpace(s[1]) THEN TrimLeft(Tail(s)) ELSE s

RECURSIVE TrimRight(_)
TrimRight(s) ==
    IF Len(s) > 0 /\ IsSpace(s[Len(s)]) THEN TrimRight(SubSeq(s, 1, Len(s) - 1)) ELSE s

trim(s) == TrimLeft(TrimRight(s))

\* the loop of parse_sidecars from position i (0-based): a ';' found at i is
\* followed by ++i in the body and ++i of the for statement
RECURSIVE SidecarsFrom(_, _, _, _)
SidecarsFrom(s, i, prev, out) ==
    LET n == Len(s)
    IN  IF i >= n
        THEN IF prev < n
             THEN LET e == trim(Substr(s, prev, NPOS))
                  IN  IF Len(e) > 0 THEN Append(out, e) ELSE out
             ELSE out
        ELSE IF s[i + 1] = ";"
        THEN LET e == trim(Substr(s, prev, i - prev))
             IN  SidecarsFrom(s, i + 2, i + 1, IF Len(e) > 0 THEN Append(out, e) ELSE out)
        ELSE SidecarsFrom(s, i + 1, prev, out)

\* parse_sidecars: out.sidecars
parse_sidecars(s) == SidecarsFrom(s, 0, 0, <<>>)

(***************************************************************************)
(* The file system as the planner sees it: a set of files and a set of     *)
(* directories, both as normalised paths.                                  *)
(***************************************************************************)
\* the components of a path
RECURSIVE Components(_, _, _)
Components(pth, cur, acc) ==
    IF Len(pth) = 0 THEN Append(acc, cur)
    ELSE IF IsDirSeparator(Head(pth))
    THEN Components(Tail(pth), <<>>, Append(acc, cur))
    ELSE Components(Tail(pth), Append(cur, Head(pth)), acc)

RECURSIVE Join(_)
Join(cs) ==
    IF Len(cs) = 0 THEN <<>>
    ELSE IF Len(cs) = 1 THEN cs[1]
    ELSE cs[1] \o <<"/">> \o Join(Tail(cs))

\* the path the kernel resolves: empty and "." components dropped; a
\* relative path is relative to the working directory, written <<>>
Normalize(pth) ==
    LET cs == SelectSeq(Components(pth, <<>>, <<>>),
                        LAMBDA c : c # <<>> /\ c # <<".">>)
    IN  IF path_is_absolute(pth) THEN <<"/">> \o Join(cs) ELSE Join(cs)

\* the directories above a normalised path
RECURSIVE Ancestors(_)
Ancestors(q) ==
    IF q = <<>> \/ q = <<"/">> THEN {}
    ELSE LET k == LastSepIndex(q)
             parent == IF k = 0 THEN <<>>
                       ELSE IF k = 1 THEN <<"/">>
                       ELSE SubSeq(q, 1, k - 1)
         IN  {parent} \cup Ancestors(parent)

\* Glib::file_test(pth, Glib::FILE_TEST_EXISTS)
FileExists(pth, files, dirs) ==
    LET q == Normalize(pth)
    IN  q \in files \/ q \in dirs \/ q = <<>> \/ q = <<"/">>

(***************************************************************************)
(* get_new_name and get_targets.                                           *)
(***************************************************************************)
SKIP == "SKIP"

RENAME == "RENAME"

OFF == "OFF"

UPPERCASE == "UPPERCASE"

LOWERCASE == "LOWERCASE"

\* what the metadata provider answers (the same for every file)
CameraMake == <<"N", "/">>

CameraModel == <<"D", "7">>

HasPrefix(s, pre) == Len(s) >= Len(pre) /\ SubSeq(s, 1, Len(pre)) = pre

\* the trailing run of digits of s ("^.*?([0-9]+)$", group 1), or ""
RECURSIVE TrailingDigits(_)
TrailingDigits(s) ==
    IF Len(s) > 0 /\ IsDigit(s[Len(s)])
    THEN Append(TrailingDigits(SubSeq(s, 1, Len(s) - 1)), s[Len(s)])
    ELSE <<>>

\* the function wrapped by the FramesDataPattern of directive c
FramesDataValue(c, fn) ==
    IF c = "f" THEN removeExtension(path_get_basename(fn))
    ELSE IF c = "e" THEN getExtension(fn)
    ELSE IF c = "#" THEN TrailingDigits(removeExtension(path_get_basename(fn)))
    ELSE IF c = "%" THEN <<"%">>
    ELSE IF c = "C" THEN CameraMake \o <<" ">> \o CameraModel
    ELSE IF c = "M" THEN CameraMake
    ELSE IF c = "N" THEN CameraModel
    ELSE <<"1">>

\* the value TagPattern finds: a tag of a known family is found, with a
\* value that has a separator in it; any other is not
TagValue(tag) ==
    IF \/ HasPrefix(tag, <<"E", "x", "i", "f", ".">>)
       \/ HasPrefix(tag, <<"I", "p", "t", "c", ".">>)
       \/ HasPrefix(tag, <<"X", "m", "p", ".">>)
    THEN <<"t", "/", "v">>
    ELSE <<>>

\* Pattern::operator(): the rendering of one field and the counter after it
EvalField(f, fn, idx) ==
    IF f.kind = "Fixed" THEN [s |-> f.s, idx |-> idx]
    ELSE IF f.kind = "Progressive"
    THEN LET str == to_string(idx)
         IN  [s |-> IF Len(str) < f.pad THEN Zeros(f.pad - Len(str)) \o str ELSE str,
              idx |-> idx + 1]
    ELSE IF f.kind = "FramesData"
    THEN [s |-> make_valid(FramesDataValue(f.s[1], fn), FALSE), idx |-> idx]
    ELSE [s |-> make_valid(TagValue(f.s), FALSE), idx |-> idx]

\* the loop of get_new_name over params.pattern
RECURSIVE EvalPattern(_, _, _, _)
EvalPattern(pattern, fn, idx, name) ==
    IF Len(pattern) = 0 THEN [name |-> name, idx |-> idx]
    ELSE LET r == EvalField(Head(pattern), fn, idx)
         IN  EvalPattern(Tail(pattern), fn, r.idx, name \o r.s)

Normalized(c, norm, allow_whitespace) ==
    LET c1 == IF ~allow_whitespace /\ IsSpace(c) THEN "_" ELSE c
    IN  IF norm = UPPERCASE THEN ToUpper(c1)
        ELSE IF norm = LOWERCASE THEN ToLower(c1)
        ELSE c1

\* get_new_name giving the new name the extension of the source when the
\* pattern produces none
get_new_nameKeepsExtension(prm, fn) ==
    LET ev == EvalPattern(prm.pattern, fn, prm.progressive_number, <<>>)
        ext0 == IF getExtension(ev.name) # <<>> THEN getExtension(ev.name)
                ELSE getExtension(fn)
        ext == IF ext0 # <<>> THEN <<".">> \o ext0 ELSE <<>>
        name == IF getExtension(ev.name) # <<>> THEN removeExtension(ev.name) ELSE ev.name
        ret == [k \in 1..Len(name) |->
                   Normalized(name[k], prm.name_norm, prm.allow_whitespace)]
               \o [k \in 1..Len(ext) |->
                   Normalized(ext[k], prm.ext_norm, prm.allow_whitespace)]
    IN  [name |-> IF prm.basedir # <<>> /\ prm.basedir # <<".">>
                  THEN build_filename(prm.basedir, ret)
                  ELSE ret,
         idx |-> ev.idx]

\* get_new_name: the new name and params.progressive_number after the call
get_new_name(prm, fn) ==
    LET ev == EvalPattern(prm.pattern, fn, prm.progressive_number, <<>>)
        ext0 == getExtension(ev.name)
        ext == IF ext0 # <<>> THEN <<".">> \o ext0 ELSE <<>>
        name == IF ext0 # <<>> THEN removeExtension(ev.name) ELSE ev.name
        ret == [k \in 1..Len(name) |->
                   Normalized(name[k], prm.name_norm, prm.allow_whitespace)]
               \o [k \in 1..Len(ext) |->
                   Normalized(ext[k], prm.ext_norm, prm.allow_whitespace)]
    IN  [name |-> IF prm.basedir # <<>> /\ prm.basedir # <<".">>
                  THEN build_filename(prm.basedir, ret)
                  ELSE ret,
         idx |-> ev.idx]

\* Options::getParamFile: the parameter file of an image
getParamFile(fn) == fn \o <<".", "a", "r", "p">>

\* the first number i >= 1 for which bn_i ext does not exist in dir
FirstFreeNumber(dir, bn, ext, files, dirs) ==
    CHOOSE i \in 1..(Cardinality(files) + Cardinality(dirs) + 1) :
        /\ ~FileExists(build_filename(dir, bn \o <<"_">> \o to_string(i) \o ext), files, dirs)
        /\ \A j \in 1..(i - 1) :
               FileExists(build_filename(dir, bn \o <<"_">> \o to_string(j) \o ext), files, dirs)

\* the sidecar of path for suffix s, whatever its first character
SidecarNameOnStem(path, base, s) == base \o <<".">> \o s

\* the sidecar of path for suffix s
SidecarName(path, base, s) ==
    IF s[1] = "+" THEN path \o <<".">> \o Substr(s, 1, NPOS)
    ELSE base \o <<".">> \o s

\* the loop over params.sidecars that adds every sidecar that exists, listed
\* already or not
RECURSIVE AddSidecarsRepeated(_, _, _, _, _, _)
AddSidecarsRepeated(sidecars, fn, newpath, out, files, dirs) ==
    IF Len(sidecars) = 0 THEN out
    ELSE LET sc == Head(sidecars)
             orig_sidename == SidecarName(fn, removeExtension(fn), sc)
             new_sidename == SidecarName(newpath, removeExtension(newpath), sc)
         IN  AddSidecarsRepeated(Tail(sidecars), fn, newpath,
                                 IF FileExists(orig_sidename, files, dirs)
                                 THEN Append(out, <<orig_sidename, new_sidename>>)
                                 ELSE out,
                                 files, dirs)

\* the loop of get_targets over params.sidecars
RECURSIVE AddSidecars(_, _, _, _, _, _)
AddSidecars(sidecars, fn, newpath, out, files, dirs) ==
    IF Len(sidecars) = 0 THEN out
    ELSE LET sc == Head(sidecars)
             orig_sidename == SidecarName(fn, removeExtension(fn), sc)
             new_sidename == SidecarName(newpath, removeExtension(newpath), sc)
             ok == /\ FileExists(orig_sidename, files, dirs)
                   /\ \A k \in 1..Len(out) : out[k][1] # orig_sidename
         IN  AddSidecars(Tail(sidecars), fn, newpath,
                         IF ok THEN Append(out, <<orig_sidename, new_sidename>>) ELSE out,
                         files, dirs)

\* the branch of get_targets for an existing destination under RENAME: the
\* first of dir/bn_1.ext, dir/bn_2.ext, ... that does not exist
RenumberedPath(dir, newname, files, dirs) ==
    LET bn == removeExtension(newname)
        ext0 == getExtension(newname)
        ext == IF ext0 # <<>> THEN <<".">> \o ext0 ELSE <<>>
    IN  build_filename(dir,
            bn \o <<"_">> \o to_string(FirstFreeNumber(dir, bn, ext, files, dirs)) \o ext)

\* the decision of get_targets on a destination newpath that exists or not
PlanAt(prm, dir, nn, newpath, exists, files, dirs) ==
    [newname |-> nn.name,
     idx |-> nn.idx,
     planned |-> newpath,
     conflict |-> exists,
     skip |-> exists /\ prm.on_existing # RENAME,
     newpath |-> IF exists /\ prm.on_existing = RENAME
                 THEN RenumberedPath(dir, nn.name, files, dirs)
                 ELSE newpath]

\* the destination get_targets computes first for the new name nn
PlannedPath(dir, newname) ==
    IF path_is_absolute(newname) THEN newname ELSE build_filename(dir, newname)

PlanNamed(prm, dir, nn, newpath, files, dirs) ==
    PlanAt(prm, dir, nn, newpath, FileExists(newpath, files, dirs), files, dirs)

\* get_targets up to the decision on an existing destination: the new name,
\* the destination first computed, whether it exists, and the destination
\* after the conflict policy
PlanNew(prm, dir, nn, files, dirs) ==
    PlanNamed(prm, dir, nn, PlannedPath(dir, nn.name), files, dirs)

PlanPrimary(prm, fn, files, dirs) ==
    PlanNew(prm, path_get_dirname(fn), get_new_name(prm, fn), files, dirs)

\* get_targets from out.push_back of the primary pair on: the primary, its
\* parameter file and its sidecars
TargetsOf(prm, fn, newpath, files, dirs) ==
    LET pf == getParamFile(fn)
        out1 == <<<<fn, newpath>>>>
        out2 == IF FileExists(pf, files, dirs)
                THEN Append(out1, <<pf, getParamFile(newpath)>>)
                ELSE out1
    IN  IF Len(prm.sidecars) # 0
        THEN AddSidecars(prm.sidecars, fn, newpath, out2, files, dirs)
        ELSE out2

\* the rest of get_targets with the companions computed before the conflict
\* is resolved
TargetsForCompanionsFromPlanned(prm, fn, p, files, dirs) ==
    [out |-> IF p.skip THEN <<>>
             ELSE [TargetsOf(prm, fn, p.planned, files, dirs) EXCEPT ![1] = <<fn, p.newpath>>],
     plan |-> p]

\* the rest of get_targets going on after an existing destination under SKIP
TargetsForNoSkip(prm, fn, p, files, dirs) ==
    [out |-> TargetsOf(prm, fn, p.newpath, files, dirs), plan |-> p]

\* get_targets after the decision p on the destination: the return on a
\* skip, or the pairs
TargetsFor(prm, fn, p, files, dirs) ==
    [out |-> IF p.skip THEN <<>> ELSE TargetsOf(prm, fn, p.newpath, files, dirs),
     plan |-> p]

\* get_targets: out, and what was computed on the way
get_targets(prm, fn, files, dirs) ==
    TargetsFor(prm, fn, PlanPrimary(prm, fn, files, dirs), files, dirs)

(***************************************************************************)
(* copyMoveRequested: the operations on the file system.                   *)
(***************************************************************************)
\* g_mkdir_with_parents(destdir): the directories it leaves, and whether it
\* returned 0; a file in the way stops it at that component
mkdir_with_parents(destdir, files, dirs) ==
    LET q == Normalize(destdir)
        chain == ({q} \cup Ancestors(q)) \ {<<>>, <<"/">>}
        blockers == chain \cap files
        reach == IF blockers = {} THEN chain
                 ELSE {c \in chain : \A b \in blockers : Len(c) < Len(b)}
    IN  [ok |-> blockers = {}, dirs |-> dirs \cup reach]

\* doit(s, d): g_rename when moving, Gio::File::copy (without overwrite)
\* when copying; ioerr is a failure of the device
doit(s, d, mv, ioerr, files, dirs) ==
    LET sn == Normalize(s)
        dn == Normalize(d)
    IN  IF ioerr \/ sn \notin files \/ dn \in dirs
        THEN [ok |-> FALSE, files |-> files]
        ELSE IF mv
        THEN [ok |-> TRUE, files |-> (files \ {sn}) \cup {dn}]
        ELSE IF dn \in files
        THEN [ok |-> FALSE, files |-> files]
        ELSE [ok |-> TRUE, files |-> files \cup {dn}]

\* the loop of func over torename from pair k on; ioerr makes the first
\* operation fail.  failed are the pairs whose directory or operation
\* failed, errors the calls of error() on the parent window
RECURSIVE RunPairs(_, _, _, _, _, _, _)
RunPairs(torename, k, mv, ioerr, files, dirs, acc) ==
    IF k > Len(torename)
    THEN [files |-> files, dirs |-> dirs, ops |-> acc.ops, failed |-> acc.failed,
          errors |-> acc.errors]
    ELSE LET pr == torename[k]
             m == mkdir_with_parents(path_get_dirname(pr[2]), files, dirs)
             r == IF m.ok THEN doit(pr[1], pr[2], mv, ioerr /\ k = 1, files, m.dirs)
                  ELSE [ok |-> FALSE, files |-> files]
         IN  RunPairs(torename, k + 1, mv, ioerr, r.files, m.dirs,
                      IF r.ok
                      THEN [acc EXCEPT !.ops = Append(@, pr)]
                      ELSE [acc EXCEPT !.failed = Append(@, pr),
                                       !.errors = Append(@, pr)])

NoPlan ==
    [newname |-> <<>>, idx |-> 0, planned |-> <<>>, conflict |-> FALSE,
     skip |-> FALSE, newpath |-> <<>>]

\* what func leaves: the counter, torename, the file system, and the
\* operations done, failed and reported
FuncResult(t, r) ==
    [progressive_number |-> t.plan.idx,
     torename |-> t.out,
     plan |-> t.plan,
     files |-> r.files,
     dirs |-> r.dirs,
     ops |-> r.ops,
     failed |-> r.failed,
     errors |-> r.errors]

\* the loop of func over the pairs of torename
FuncLoop(t, mv, ioerr, files, dirs) ==
    FuncResult(t, RunPairs(t.out, 1, mv, ioerr, files, dirs,
                           [ops |-> <<>>, failed |-> <<>>, errors |-> <<>>]))

\* func(e) of copyMoveRequested
func(prm, fn, mv, ioerr, files, dirs) ==
    FuncLoop(get_targets(prm, fn, files, dirs), mv, ioerr, files, dirs)

(***************************************************************************)
(* deleteRequested: the operations on the file system.                     *)
(***************************************************************************)
\* g_remove(pth): a file is unlinked, an empty directory removed; ioerr is a
\* failure of the device
g_remove(pth, ioerr, files, dirs) ==
    LET q == Normalize(pth)
    IN  IF ioerr THEN [ok |-> FALSE, files |-> files, dirs |-> dirs]
        ELSE IF q \in files
        THEN [ok |-> TRUE, files |-> files \ {q}, dirs |-> dirs]
        ELSE IF /\ q \in dirs
                /\ \A f \in files \cup dirs : q \notin Ancestors(f)
        THEN [ok |-> TRUE, files |-> files, dirs |-> dirs \ {q}]
        ELSE [ok |-> FALSE, files |-> files, dirs |-> dirs]

\* one turn of the loop of func of deleteRequested: sidename is removed if
\* it exists; r is what g_remove returned
RemoveSidecar(sidename, r, removed) ==
    [files |-> r.files, dirs |-> r.dirs,
     removed |-> IF r.ok THEN Append(removed, sidename) ELSE removed]

\* the loop of func of deleteRequested over params.sidecars: the sidecars
\* that exist are removed; ioerr is a failure of the device on fname
RECURSIVE RemoveSidecars(_, _, _, _, _, _)
RemoveSidecars(sidecars, fname, ioerr, files, dirs, removed) ==
    IF Len(sidecars) = 0
    THEN [files |-> files, dirs |-> dirs, removed |-> removed]
    ELSE LET sidename == SidecarName(fname, removeExtension(fname), Head(sidecars))
             r == IF FileExists(sidename, files, dirs)
                  THEN RemoveSidecar(sidename,
                                     g_remove(sidename, ioerr /\ sidename = fname, files, dirs),
                                     removed)
                  ELSE [files |-> files, dirs |-> dirs, removed |-> removed]
         IN  RemoveSidecars(Tail(sidecars), fname, ioerr, r.files, r.dirs, r.removed)

\* what func of deleteRequested leaves after the file (result r1), its
\* parameter file and its sidecars (result r3) were removed: nothing is
\* reported, whatever g_remove returned
DeleteResult(prm, fname, r1, r3) ==
    [progressive_number |-> prm.progressive_number,
     torename |-> <<>>,
     plan |-> NoPlan,
     files |-> r3.files,
     dirs |-> r3.dirs,
     ops |-> [k \in 1..Len(r3.removed) |-> <<r3.removed[k], <<>>>>],
     failed |-> IF r1.ok THEN <<>> ELSE <<<<fname, <<>>>>>>,
     errors |-> <<>>]

\* func of deleteRequested after g_remove(fname) and
\* g_remove(getParamFile(fname)), whose results are r1 and r2
DeleteSidecars(prm, fname, ioerr, r1, r2) ==
    DeleteResult(prm, fname, r1,
        RemoveSidecars(prm.sidecars, fname, ioerr, r2.files, r2.dirs,
                       (IF r1.ok THEN <<fname>> ELSE <<>>)
                           \o (IF r2.ok THEN <<getParamFile(fname)>> ELSE <<>>)))

\* func of deleteRequested after g_remove(fname), whose result is r1
DeleteParamFile(prm, fname, ioerr, r1) ==
    DeleteSidecars(prm, fname, ioerr, r1,
                   g_remove(getParamFile(fname), FALSE, r1.files, r1.dirs))

\* func(e) of deleteRequested
func_delete(prm, fname, ioerr, files, dirs) ==
    DeleteParamFile(prm, fname, ioerr, g_remove(fname, ioerr, files, dirs))

(***************************************************************************)
(* State.                                                                  *)
(***************************************************************************)
VARIABLES
    \* --- inspector (rtgui/pathutils.cc) ---
    maxInspectorBuffers, \* options.maxInspectorBuffers
    inspectorDelay,      \* options.inspectorDelay (0 or a positive delay)
    capacity,            \* store size of InspectorArea::cache_
    cache_,              \* InspectorArea::cache_, most recently used first
    heap,                \* the InspectorBuffer objects behind the shared_ptrs
    cur_image_,          \* InspectorArea::cur_image_ (NULL or an object id)
    active_,             \* InspectorArea::active_
    next_image_path_,    \* InspectorArea::next_image_path_
    delayconn_,          \* InspectorArea::delayconn_.connected()
    last,                \* observation of the last operation performed
    useOrder,            \* observation: keys in order of their last use
    scen                 \* observation: the recent loads and hits

inspVars == <<maxInspectorBuffers, inspectorDelay, capacity, cache_, heap,
              cur_image_, active_, next_image_path_, delayconn_, last,
              useOrder, scen>>

\* the file catalog: the remembered rename options, the file system, and
\* the locals of copyMoveRequested and run_with_progress while they run
VARIABLES renaming, fsFiles, fsDirs, phase, request, params, args, move, i_, torename,
          item, progress, processed, preview

renVars == <<renaming, fsFiles, fsDirs, phase, request, params, args, move, i_, torename,
             item, progress, processed, preview>>

\* a pattern text under compilation and evaluation: the text, the result of
\* parse_pattern, params.progressive_number, the file evaluated on, and the
\* names rendered so far
VARIABLES patText, compiled, counter, startNumber, metaFile, rendered

patVars == <<patText, compiled, counter, startNumber, metaFile, rendered>>

\* a file name handed to the name functions: the name, the function applied
\* to it last, and what that function returned
VARIABLES inText, applied, outcome

nameVars == <<inText, applied, outcome>>

\* the Inspector around the area ins_[0]: the entries of the file browser,
\* cur_image_idx_, Inspector::active_ (the pane that has the highlight),
\* num_active_, the callbacks waiting in idle_register_, and what the last
\* search of Inspector::switchImage did
VARIABLES entries, cur_image_idx_, pane, num_active_, idle, probe

browVars == <<entries, cur_image_idx_, pane, num_active_, idle, probe>>

vars == <<inspVars, renVars, patVars, nameVars, browVars>>

(***************************************************************************)
(* The files the inspector is pointed at.                                  *)
(***************************************************************************)
Letters == <<"a", "b", "c", "e", "f", "g">>

\* "a.j", "b.j", ...: regular files with an extension
ImagePath(i) == <<Letters[i], ".", "j">>

Images == {ImagePath(i) : i \in 1..NumImages}

\* "d.j": a directory
DirPath == <<"d", ".", "j">>

\* "n": a regular file whose name has no extension
NoExtPath == <<"n">>

\* "m.j": no such file
MissingPath == <<"m", ".", "j">>

EmptyPath == <<>>

InspectorPaths == Images \cup {DirPath, NoExtPath, MissingPath, EmptyPath}

\* the paths the file browser asks the inspector to show: its entries, one
\* of which may have been deleted meanwhile, or none
SwitchPaths == Images \cup {MissingPath, EmptyPath}

AllPaths == [i \in 1..NumImages |-> ImagePath(i)]
                \o <<DirPath, NoExtPath, MissingPath, EmptyPath>>

\* Glib::file_test(p, FILE_TEST_EXISTS) / FILE_TEST_IS_DIR on the inspector's files
InspFileExists(p) == p \in Images \cup {DirPath, NoExtPath}

InspIsDir(p) == p = DirPath

(***************************************************************************)
(* shared_ptr<InspectorBuffer>: objects with a use count.                  *)
(***************************************************************************)
NULL == 0

\* Two objects for one path can be alive at a time (one in the cache, one
\* held by cur_image_ only), so each path has two addresses.
PathIndex(p) == CHOOSE i \in 1..Len(AllPaths) : AllPaths[i] = p

HeapIds == 1..(2 * Len(AllPaths))

Freed == [alive |-> FALSE, imgPath |-> <<>>, use_count |-> 0]

\* the address handed out by the allocator for a buffer of path p: a free one
NewId(h, p) ==
    IF ~h[2 * PathIndex(p) - 1].alive
    THEN 2 * PathIndex(p) - 1
    ELSE 2 * PathIndex(p)

\* copying a shared_ptr
Acquire(h, id) ==
    IF id = NULL THEN h
    ELSE [h EXCEPT ![id].use_count = @ + 1]

\* destroying or resetting a shared_ptr: the object is destroyed with its
\* last owner
Release(h, id) ==
    IF id = NULL THEN h
    ELSE IF h[id].use_count <= 1 THEN [h EXCEPT ![id] = Freed]
    ELSE [h EXCEPT ![id].use_count = @ - 1]

RECURSIVE ReleaseAll(_, _)
ReleaseAll(h, ids) ==
    IF Len(ids) = 0 THEN h
    ELSE ReleaseAll(Release(h, Head(ids)), Tail(ids))

(***************************************************************************)
(* rtengine::Cache<Glib::ustring, shared_ptr<InspectorBuffer>>             *)
(* A sequence of [key, value], most recently used first.                   *)
(***************************************************************************)
CacheKeys(c) == [i \in 1..Len(c) |-> c[i].key]

CacheValues(c) == [i \in 1..Len(c) |-> c[i].value]

CacheIndex(c, key) ==
    IF \E i \in 1..Len(c) : c[i].key = key
    THEN CHOOSE i \in 1..Len(c) : c[i].key = key
    ELSE 0

RemoveAt(s, i) == SubSeq(s, 1, i - 1) \o SubSeq(s, i + 1, Len(s))

\* Cache::get: on a hit the entry becomes the most recently used
CacheGet(c, key) ==
    LET i == CacheIndex(c, key)
    IN  IF i = 0
        THEN [present |-> FALSE, cache |-> c, value |-> NULL]
        ELSE [present |-> TRUE, cache |-> <<c[i]>> \o RemoveAt(c, i), value |-> c[i].value]

\* Cache::set: a present key is refreshed in place, a new key is inserted as
\* the most recently used and the least recently used entries are discarded
\* until the size fits the capacity
CacheSet(c, h, cap, key, value) ==
    LET i == CacheIndex(c, key)
    IN  IF i # 0
        THEN [cache |-> <<[key |-> key, value |-> value]>> \o RemoveAt(c, i),
              heap |-> Release(Acquire(h, value), c[i].value)]
        ELSE LET ins == <<[key |-> key, value |-> value]>> \o c
                 keep == Min(Len(ins), Max(cap, 0))
             IN  [cache |-> SubSeq(ins, 1, keep),
                  heap |-> ReleaseAll(Acquire(h, value),
                                      CacheValues(SubSeq(ins, keep + 1, Len(ins))))]

\* Cache::clear
CacheClear(c, h) == [cache |-> <<>>, heap |-> ReleaseAll(h, CacheValues(c))]

(***************************************************************************)
(* InspectorBuffer and InspectorArea.                                      *)
(***************************************************************************)
\* InspectorBuffer::InspectorBuffer: the imgPath the constructed buffer ends
\* up with. surface tells whether PreviewImage::getImage returned a surface.
InspectorBuffer(imagePath, surface) ==
    IF imagePath # <<>> /\ InspFileExists(imagePath) /\ ~InspIsDir(imagePath)
    THEN IF getExtension(imagePath) = <<>> THEN <<>>
         ELSE IF surface THEN imagePath
         ELSE <<>>
    ELSE <<>>

\* whether the constructor gets as far as running the decoder (PreviewImage)
InspectorBufferDecodes(imagePath) ==
    /\ imagePath # <<>>
    /\ InspFileExists(imagePath)
    /\ ~InspIsDir(imagePath)
    /\ getExtension(imagePath) # <<>>

\* a mutant of the constructor's capacity: the option is not clamped
CapacityUnclamped(maxBuffers) == maxBuffers

\* InspectorArea::InspectorArea: cache_(std::max(options.maxInspectorBuffers, 1))
InspectorAreaCapacity(maxBuffers) == Max(maxBuffers, 1)

\* a mutant of doCacheImage: the buffer is always loaded anew, the cache is
\* not asked first
doCacheImageNoLookup(c, h, cap, fullPath, surface) ==
    LET id == NewId(h, fullPath)
        path == InspectorBuffer(fullPath, surface)
        h1 == [h EXCEPT ![id] = [alive |-> TRUE, imgPath |-> path, use_count |-> 1]]
    IN  IF path = <<>>
        THEN [cache |-> c, heap |-> Release(h1, id), res |-> NULL,
              hit |-> FALSE, constructed |-> TRUE,
              decoded |-> InspectorBufferDecodes(fullPath)]
        ELSE LET st == CacheSet(c, h1, cap, fullPath, id)
             IN  [cache |-> st.cache, heap |-> st.heap, res |-> id,
                  hit |-> FALSE, constructed |-> TRUE, decoded |-> TRUE]

\* a mutant of doCacheImage: a buffer whose load failed is cached all the same
doCacheImageKeepsFailed(c, h, cap, fullPath, surface) ==
    LET g == CacheGet(c, fullPath)
    IN  IF g.present
        THEN [cache |-> g.cache, heap |-> Acquire(h, g.value), res |-> g.value,
              hit |-> TRUE, constructed |-> FALSE, decoded |-> FALSE]
        ELSE LET id == NewId(h, fullPath)
                 path == InspectorBuffer(fullPath, surface)
                 h1 == [h EXCEPT ![id] = [alive |-> TRUE, imgPath |-> path,
                                          use_count |-> 1]]
                 st == CacheSet(c, h1, cap, fullPath, id)
             IN  [cache |-> st.cache, heap |-> st.heap,
                  res |-> IF path = <<>> THEN NULL ELSE id,
                  hit |-> FALSE, constructed |-> TRUE,
                  decoded |-> InspectorBufferDecodes(fullPath)]

\* a mutant of doCacheImage: a hit does not go through Cache::get, so the
\* entry found keeps its place in the recency order
doCacheImageHitNoPromote(c, h, cap, fullPath, surface) ==
    LET g == CacheGet(c, fullPath)
    IN  IF g.present
        THEN [cache |-> c, heap |-> Acquire(h, g.value), res |-> g.value,
              hit |-> TRUE, constructed |-> FALSE, decoded |-> FALSE]
        ELSE doCacheImageNoLookup(c, h, cap, fullPath, surface)

\* InspectorArea::doCacheImage. res is the returned shared_ptr, which owns
\* one use of the object; hit, constructed and decoded report what the call
\* did (cache hit, InspectorBuffer constructed, PreviewImage run).
doCacheImage(c, h, cap, fullPath, surface) ==
    LET g == CacheGet(c, fullPath)
    IN  IF g.present
        THEN [cache |-> g.cache, heap |-> Acquire(h, g.value), res |-> g.value,
              hit |-> TRUE, constructed |-> FALSE, decoded |-> FALSE]
        ELSE LET id == NewId(h, fullPath)
                 path == InspectorBuffer(fullPath, surface)
                 h1 == [h EXCEPT ![id] = [alive |-> TRUE, imgPath |-> path,
                                          use_count |-> 1]]
             IN  IF path = <<>>
                 THEN [cache |-> c, heap |-> Release(h1, id), res |-> NULL,
                       hit |-> FALSE, constructed |-> TRUE,
                       decoded |-> InspectorBufferDecodes(fullPath)]
                 ELSE LET st == CacheSet(c, h1, cap, fullPath, id)
                      IN  [cache |-> st.cache, heap |-> st.heap, res |-> id,
                           hit |-> FALSE, constructed |-> TRUE, decoded |-> TRUE]

\* no doCacheImage call was made
NoCall == [cache |-> <<>>, heap |-> <<>>, res |-> NULL, hit |-> FALSE,
           constructed |-> FALSE, decoded |-> FALSE]

\* a mutant of doSwitchImage: cur_image_ does not own the buffer it shows (as
\* if it were a plain pointer into the cache)
doSwitchImageBorrows(c, h, cap, cur, fullPath, surface) ==
    IF fullPath = <<>>
    THEN [cache |-> c, heap |-> h, cur |-> NULL,
          called |-> FALSE, call |-> NoCall]
    ELSE LET r == doCacheImage(c, h, cap, fullPath, surface)
         IN  [cache |-> r.cache, heap |-> Release(r.heap, r.res), cur |-> r.res,
              called |-> TRUE, call |-> r]

\* InspectorArea::doSwitchImage: the new cache, heap and cur_image_, and the
\* doCacheImage call made, if any
doSwitchImage(c, h, cap, cur, fullPath, surface) ==
    IF fullPath = <<>>
    THEN [cache |-> c, heap |-> Release(h, cur), cur |-> NULL,
          called |-> FALSE, call |-> NoCall]
    ELSE LET r == doCacheImage(c, h, cap, fullPath, surface)
         IN  [cache |-> r.cache, heap |-> Release(r.heap, cur), cur |-> r.res,
              called |-> TRUE, call |-> r]

\* InspectorArea::preloadImage: the returned shared_ptr is dropped
preloadImage(c, h, cap, fullPath, surface) ==
    LET r == doCacheImage(c, h, cap, fullPath, surface)
    IN  [cache |-> r.cache, heap |-> Release(r.heap, r.res), call |-> r]

\* InspectorArea::deleteBuffers
deleteBuffers(c, h, cur) ==
    LET cl == CacheClear(c, h)
    IN  [cache |-> cl.cache, heap |-> Release(cl.heap, cur), cur |-> NULL]

\* InspectorArea::flushBuffers
flushBuffers(active, c, h, cur) ==
    IF ~active
    THEN [cache |-> c, heap |-> h, cur |-> cur]
    ELSE deleteBuffers(c, h, cur)

(***************************************************************************)
(* Observations kept beside the program state.                             *)
(***************************************************************************)
\* what the last operation was ("doSwitchImage", "preloadImage",
\* "flushBuffers", or "none" for any other) and what its doCacheImage call,
\* if any, did
Observe(op, path, called, r) ==
    [op |-> op, path |-> path, called |-> called, hit |-> called /\ r.hit,
     constructed |-> called /\ r.constructed, decoded |-> called /\ r.decoded,
     ret |-> IF called THEN r.res ELSE NULL]

Without(s, x) == SelectSeq(s, LAMBDA y : y # x)

\* the keys by last use, most recent first: a use is a hit or a load that
\* succeeded
Used(order, path, called, r) ==
    IF called /\ (r.hit \/ r.res # NULL)
    THEN <<path>> \o Without(order, path)
    ELSE order

\* the part of the order that is about keys resident in cache c
Resident(order, c) ==
    SelectSeq(order, LAMBDA k : \E i \in 1..Len(c) : c[i].key = k)

IsPrefix(s, t) == Len(s) <= Len(t) /\ SubSeq(t, 1, Len(s)) = s

Load(p) == [path |-> p, hit |-> FALSE]

Hit(p) == [path |-> p, hit |-> TRUE]

\* load A, load B, hit A, load C
ScenarioHit == <<Load(ImagePath(1)), Load(ImagePath(2)), Hit(ImagePath(1)),
                 Load(ImagePath(3))>>

\* load A, load B, load C
ScenarioNoHit == <<Load(ImagePath(1)), Load(ImagePath(2)), Load(ImagePath(3))>>

\* the loads and hits made in a row, for as long as they follow one of the
\* two scenarios
Follow(sc, path, called, r) ==
    IF ~called THEN sc
    ELSE IF ~(r.hit \/ r.res # NULL) THEN <<>>
    ELSE LET e == [path |-> path, hit |-> r.hit]
             next == sc \o <<e>>
         IN  IF IsPrefix(next, ScenarioHit) \/ IsPrefix(next, ScenarioNoHit)
             THEN next
             ELSE IF e = Load(ImagePath(1)) THEN <<e>> ELSE <<>>

(***************************************************************************)
(* Inspector: initial state and operations.                                *)
(***************************************************************************)
InitInspector ==
    /\ maxInspectorBuffers \in 0..MaxInspectorBuffers
    /\ inspectorDelay \in {0, 1}
    /\ capacity = InspectorAreaCapacity(maxInspectorBuffers)
    /\ cache_ = <<>>
    /\ heap = [i \in HeapIds |-> Freed]
    /\ cur_image_ = NULL
    /\ active_ = FALSE
    /\ next_image_path_ = <<>>
    /\ delayconn_ = FALSE
    /\ last = Observe("none", <<>>, FALSE, NoCall)
    /\ useOrder = <<>>
    /\ scen = <<>>

\* InspectorArea::on_draw: the first draw makes the area active
OnDraw ==
    /\ ~active_
    /\ active_' = TRUE
    /\ last' = Observe("none", <<>>, FALSE, NoCall)
    /\ UNCHANGED <<maxInspectorBuffers, inspectorDelay, capacity, cache_, heap,
                   cur_image_, next_image_path_, delayconn_, useOrder, scen>>
    /\ UNCHANGED <<renVars, patVars, nameVars, browVars>>

\* InspectorArea::setActive(state)
SetActive(state) ==
    \E f \in {IF ~state THEN flushBuffers(active_, cache_, heap, cur_image_)
               ELSE [cache |-> cache_, heap |-> heap, cur |-> cur_image_]} :
        /\ cache_' = f.cache
        /\ heap' = f.heap
        /\ cur_image_' = f.cur
        /\ active_' = state
        /\ last' = Observe("none", <<>>, FALSE, NoCall)
        /\ scen' = IF state THEN scen ELSE <<>>
        /\ useOrder' = Resident(useOrder, f.cache)
        /\ UNCHANGED <<maxInspectorBuffers, inspectorDelay, capacity,
                       next_image_path_, delayconn_>>
        /\ UNCHANGED <<renVars, patVars, nameVars, browVars>>

\* the effect of doSwitchImage on the state
DoSwitch(op, fullPath, surface) ==
    \E d \in {doSwitchImage(cache_, heap, capacity, cur_image_, fullPath, surface)} :
        /\ cache_' = d.cache
        /\ heap' = d.heap
        /\ cur_image_' = d.cur
        /\ last' = Observe(op, fullPath, d.called, d.call)
        /\ useOrder' = Resident(Used(useOrder, fullPath, d.called, d.call), d.cache)
        /\ scen' = Follow(scen, fullPath, d.called, d.call)

\* InspectorArea::switchImage(fullPath) on the area
SwitchImageOfArea(fullPath, surface) ==
    /\ IF ~active_
       THEN /\ last' = Observe("none", <<>>, FALSE, NoCall)
            /\ UNCHANGED <<maxInspectorBuffers, inspectorDelay, capacity, cache_,
                           heap, cur_image_, active_, next_image_path_, delayconn_,
                           useOrder, scen>>
       ELSE /\ next_image_path_' = fullPath
            /\ IF inspectorDelay = 0
               THEN /\ DoSwitch("doSwitchImage", fullPath, surface)
                    /\ delayconn_' = FALSE
               ELSE /\ delayconn_' = TRUE
                    /\ last' = Observe("none", <<>>, FALSE, NoCall)
                    /\ UNCHANGED <<cache_, heap, cur_image_, useOrder, scen>>
            /\ UNCHANGED <<maxInspectorBuffers, inspectorDelay, capacity, active_>>

\* InspectorArea::switchImage(fullPath)
SwitchImage(fullPath, surface) ==
    /\ UNCHANGED <<renVars, patVars, nameVars, browVars>>
    /\ SwitchImageOfArea(fullPath, surface)

\* the timeout connected by switchImage runs doSwitchImage; the slot returns
\* true, so the connection stays
DelayTimeout(surface) ==
    /\ delayconn_
    /\ DoSwitch("doSwitchImage", next_image_path_, surface)
    /\ UNCHANGED <<maxInspectorBuffers, inspectorDelay, capacity, active_,
                   next_image_path_, delayconn_>>
    /\ UNCHANGED <<renVars, patVars, nameVars, browVars>>

\* InspectorArea::preloadImage(fullPath)
PreloadImage(fullPath, surface) ==
    \E r \in {preloadImage(cache_, heap, capacity, fullPath, surface)} :
        /\ cache_' = r.cache
        /\ heap' = r.heap
        /\ last' = Observe("preloadImage", fullPath, TRUE, r.call)
        /\ useOrder' = Resident(Used(useOrder, fullPath, TRUE, r.call), r.cache)
        /\ scen' = Follow(scen, fullPath, TRUE, r.call)
        /\ UNCHANGED <<maxInspectorBuffers, inspectorDelay, capacity,
                       cur_image_, active_, next_image_path_, delayconn_>>
        /\ UNCHANGED <<renVars, patVars, nameVars, browVars>>

\* InspectorArea::flushBuffers
FlushBuffers ==
    \E f \in {flushBuffers(active_, cache_, heap, cur_image_)} :
        /\ cache_' = f.cache
        /\ heap' = f.heap
        /\ cur_image_' = f.cur
        /\ last' = Observe("flushBuffers", <<>>, FALSE, NoCall)
        /\ scen' = <<>>
        /\ useOrder' = Resident(useOrder, f.cache)
        /\ UNCHANGED <<maxInspectorBuffers, inspectorDelay, capacity, active_,
                       next_image_path_, delayconn_>>
        /\ UNCHANGED <<renVars, patVars, nameVars, browVars>>

\* PreviewImage::getImage is asked for a surface only for a path the
\* InspectorBuffer constructor accepts; it may or may not return one
Surfaces(p) == IF InspectorBufferDecodes(p) THEN BOOLEAN ELSE {FALSE}

(***************************************************************************)
(* Inspector: the file browser's entries, the search of switchImage, the   *)
(* idle preloads and the two panes.  The area followed is ins_[0]; what is *)
(* done to ins_[1] leaves it as it is.                                     *)
(***************************************************************************)
\* size_t arithmetic
SizeModulus == 2 ^ 16

\* the entries of the file browser when nothing is filtered
AllEntries == [k \in 1..NumImages |-> [filename |-> ImagePath(k), filtered |-> FALSE]]

\* the lists getEntries() may return: none, all, and all with the second
\* one filtered
EntryLists ==
    { <<>>,
      AllEntries,
      [AllEntries EXCEPT ![2].filtered = TRUE] }

\* the paths the file browser hands to Inspector::switchImage: the files of
\* its entries, or none
BrowserPaths == Images \cup {EmptyPath}

\* what reading entries[k] (0-based) and testing it against fullPath gives:
\* outside the vector the read is undefined, and garbage says what it gave
EntryMatches(es, k, fullPath, garbage) ==
    IF k < Len(es)
    THEN ~es[k + 1].filtered /\ es[k + 1].filename = fullPath
    ELSE garbage = "match"

\* the while loop of Inspector::switchImage: j and the indices read
RECURSIVE SearchLoop(_, _, _, _, _, _)
SearchLoop(es, fullPath, ilo, ihi, reads, garbage) ==
    IF ~(ilo > 0 \/ ihi < Len(es))
    THEN [j |-> Len(es), reads |-> reads]
    ELSE IF ilo > 0 /\ EntryMatches(es, ilo - 1, fullPath, garbage)
    THEN [j |-> ilo - 1, reads |-> reads \cup {ilo - 1}]
    ELSE LET ilo1 == IF ilo > 0 THEN ilo - 1 ELSE ilo
             reads1 == IF ilo > 0 THEN reads \cup {ilo - 1} ELSE reads
         IN  IF ihi < Len(es) /\ EntryMatches(es, ihi, fullPath, garbage)
             THEN [j |-> ihi, reads |-> reads1 \cup {ihi}]
             ELSE IF ihi < Len(es)
             THEN SearchLoop(es, fullPath, ilo1, ihi + 1, reads1 \cup {ihi}, garbage)
             ELSE SearchLoop(es, fullPath, ilo1, ihi, reads1, garbage)

\* the search from std::min(cur_image_idx_[active_], j - 1)
Search(es, cur, fullPath, garbage) ==
    LET ilo == Min(cur, (Len(es) - 1) % SizeModulus)
    IN  SearchLoop(es, fullPath, ilo, ilo, {}, garbage)

\* the filename of the nearest entry before j (0-based) that is not filtered
RECURSIVE PrevOf(_, _)
PrevOf(es, i) ==
    IF i <= 0 THEN <<>>
    ELSE IF ~es[i].filtered THEN es[i].filename
    ELSE PrevOf(es, i - 1)

\* the filename of the nearest entry from i (0-based) on that is not filtered
RECURSIVE NextOf(_, _)
NextOf(es, i) ==
    IF i >= Len(es) THEN <<>>
    ELSE IF ~es[i + 1].filtered THEN es[i + 1].filename
    ELSE NextOf(es, i + 1)

\* the callback Inspector::switchImage hands to idle_register_ for j
PreloadsFor(es, j, maxBuffers) ==
    [prev |-> IF maxBuffers > 2 THEN PrevOf(es, j) ELSE <<>>,
     next |-> IF maxBuffers > 1 THEN NextOf(es, j + 1) ELSE <<>>]

NoProbe ==
    [ran |-> FALSE, fullPath |-> <<>>, searched |-> <<>>, pane |-> 0, before |-> 0,
     j |-> 0, reads |-> {}, scheduled |-> FALSE, crashed |-> FALSE]

InitBrowser ==
    /\ entries \in EntryLists
    /\ cur_image_idx_ = [i \in {0, 1} |-> 0]
    /\ pane = 0
    /\ num_active_ = 1
    /\ idle = <<>>
    /\ probe = NoProbe

\* the outcomes of reading outside the vector
Garbage(es, cur) == IF Len(es) = 0 /\ cur > 0 THEN {"match", "other", "crash"} ELSE {"other"}

\* Inspector::switchImage(fullPath)
InspectorSwitchImage(fullPath, surface) ==
    /\ Len(idle) < MaxPendingIdle
    /\ IF ~active_
       THEN /\ UNCHANGED inspVars
            /\ UNCHANGED <<entries, cur_image_idx_, pane, num_active_, idle>>
            /\ probe' = NoProbe
       ELSE /\ IF pane = 0
               THEN SwitchImageOfArea(fullPath, surface)
               ELSE UNCHANGED inspVars
            /\ \E garbage \in Garbage(entries, cur_image_idx_[pane]) :
               \E r \in {Search(entries, cur_image_idx_[pane], fullPath, garbage)} :
                   /\ probe' = [ran |-> TRUE, fullPath |-> fullPath, searched |-> entries,
                                pane |-> pane, before |-> cur_image_idx_[pane], j |-> r.j,
                                reads |-> r.reads,
                                scheduled |-> garbage # "crash" /\ r.j < Len(entries),
                                crashed |-> garbage = "crash"]
                   /\ IF garbage # "crash" /\ r.j < Len(entries)
                      THEN /\ cur_image_idx_' = [cur_image_idx_ EXCEPT ![pane] = r.j]
                           /\ idle' = Append(idle, PreloadsFor(entries, r.j,
                                                               maxInspectorBuffers))
                      ELSE UNCHANGED <<cur_image_idx_, idle>>
            /\ UNCHANGED <<entries, pane, num_active_>>
    /\ UNCHANGED <<renVars, patVars, nameVars>>

\* preloadImage(fullPath) of the idle callback, for a name that is not empty
PreloadIfNamed(a, fullPath, surface) ==
    IF fullPath = <<>> THEN a
    ELSE LET r == preloadImage(a.cache, a.heap, capacity, fullPath, surface)
         IN  [cache |-> r.cache, heap |-> r.heap,
              last |-> Observe("preloadImage", fullPath, TRUE, r.call),
              useOrder |-> Resident(Used(a.useOrder, fullPath, TRUE, r.call), r.cache),
              scen |-> Follow(a.scen, fullPath, TRUE, r.call)]

\* the callback of idle_register_ runs: next, then prev, are preloaded into
\* the pane that is active now
IdlePreload(surfaceNext, surfacePrev) ==
    /\ Len(idle) > 0
    /\ idle' = Tail(idle)
    /\ IF pane = 0
       THEN \E a \in {PreloadIfNamed(
                         PreloadIfNamed([cache |-> cache_, heap |-> heap, last |-> last,
                                         useOrder |-> useOrder, scen |-> scen],
                                        Head(idle).next, surfaceNext),
                         Head(idle).prev, surfacePrev)} :
                /\ cache_' = a.cache
                /\ heap' = a.heap
                /\ last' = a.last
                /\ useOrder' = a.useOrder
                /\ scen' = a.scen
                /\ UNCHANGED <<maxInspectorBuffers, inspectorDelay, capacity, cur_image_,
                               active_, next_image_path_, delayconn_>>
       ELSE UNCHANGED inspVars
    /\ UNCHANGED <<entries, cur_image_idx_, pane, num_active_, probe>>
    /\ UNCHANGED <<renVars, patVars, nameVars>>

\* Inspector::onGrabFocus(evt, i) for button 1, and the Tab key in split view
OnGrabFocus(i) ==
    /\ i < num_active_
    /\ pane' = i
    /\ UNCHANGED <<entries, cur_image_idx_, num_active_, idle, probe>>
    /\ UNCHANGED <<inspVars, renVars, patVars, nameVars>>

\* Inspector::split_toggled
SplitToggled ==
    /\ IF num_active_ = 1
       THEN pane' = 1 /\ num_active_' = 2
       ELSE pane' = 0 /\ num_active_' = 1
    /\ UNCHANGED <<entries, cur_image_idx_, idle, probe>>
    /\ UNCHANGED <<inspVars, renVars, patVars, nameVars>>

\* the file browser shows another list (another folder, another filter)
EntriesChanged(es) ==
    /\ es # entries
    /\ entries' = es
    /\ UNCHANGED <<cur_image_idx_, pane, num_active_, idle, probe>>
    /\ UNCHANGED <<inspVars, renVars, patVars, nameVars>>

\* no Inspector around the area
BrowserAtRest ==
    /\ entries = <<>>
    /\ cur_image_idx_ = [i \in {0, 1} |-> 0]
    /\ pane = 0
    /\ num_active_ = 1
    /\ idle = <<>>
    /\ probe = NoProbe

(***************************************************************************)
(* File catalog: the files, the rename options and the batch operations.   *)
(***************************************************************************)
\* the entries of the file browser, in its order
Entries ==
    << <<"i", "m", "g", ".", "c", "r", "2">>,
       <<"/", "p", "/", "i", "m", "g", ".", "c", "r", "2">>,
       <<"b", ".", "c", "r", "2">>,
       <<"c", ".", "c", "r", "2">> >>

\* the companions of img.cr2 that may lie next to it: a sidecar named after
\* the stem, the parameter file, and a sidecar named after the whole name
CompanionFiles ==
    { <<"i", "m", "g", ".", "x", "m", "p">>,
      <<"i", "m", "g", ".", "c", "r", "2", ".", "a", "r", "p">>,
      <<"i", "m", "g", ".", "c", "r", "2", ".", "t", "h", "u", "m", "b">> }

\* files left in the directory by earlier work, named like no entry and no
\* companion of an entry
StrayFiles == { <<"x", ".", "x", "m", "p">>, <<"i", "m", "g", "_", "0", "0", "1">> }

\* the values of the sequence start entry of the dialog
DialogStartNumbers == {1, 9}

\* the texts of the pattern entry: stem and counter, stem and extension, a
\* fixed name, and one that does not compile
PatternTexts ==
    { <<"%", "f", "_", "%", "n", "3">>,
      <<"%", "f", ".", "%", "e">>,
      <<"x", ".", "%", "e">>,
      <<"%", "f", "%">> }

SidecarsText == <<"x", "m", "p", ";", "+", "t", "h", "u", "m", "b">>

\* the texts of the sidecars entry: two suffixes, and a list with a suffix
\* twice, the extension of the entries and the suffix of the parameter file
SidecarsTexts ==
    { SidecarsText,
      <<"x", "m", "p", ";", "x", "m", "p", ";", "c", "r", "2", ";", "+", "a", "r", "p">> }

\* the folders of the base directory chooser
BaseDirs == { <<>>, <<".">>, <<"o", "u", "t">>, <<"/", "o", "u", "t">> }

\* the selections of at most BatchSize entries, in browser order
RECURSIVE Selections(_)
Selections(k) ==
    IF k = 0 THEN {<<>>}
    ELSE LET rest == Selections(k - 1)
         IN  rest \cup {Append(sel, Entries[k]) : sel \in rest}

Batches == {sel \in Selections(Len(Entries)) : Len(sel) <= BatchSize}

NoParams ==
    [basedir |-> <<>>, pattern |-> <<>>, sidecars |-> <<>>, name_norm |-> OFF,
     ext_norm |-> OFF, allow_whitespace |-> FALSE, on_existing |-> SKIP,
     progressive_number |-> 0]

\* what the last run of func did: its entry, the file system it started
\* from, what get_targets computed, and the operations done, failed and
\* reported
NoItem ==
    [fn |-> <<>>, index |-> 0, on_existing |-> SKIP, files0 |-> {}, dirs0 |-> {},
     plan |-> NoPlan, out |-> <<>>, ops |-> <<>>, failed |-> <<>>, errors |-> <<>>]

\* the preview of the rename dialog: nothing, or the text compiled, the
\* fields given to get_new_name and the name shown
NoPreview == [shown |-> FALSE, text |-> <<>>, pattern |-> <<>>, name |-> <<>>]

\* getparams once parse_pattern returned pp, going on with the fields a
\* failed parse left
GetparamsKeepsPartial(r, out, pp) ==
    [ok |-> TRUE,
     params |-> [basedir |-> r.basedir,
                 pattern |-> pp.pattern,
                 sidecars |-> parse_sidecars(r.sidecars),
                 name_norm |-> r.name_norm,
                 ext_norm |-> r.ext_norm,
                 allow_whitespace |-> r.allow_whitespace,
                 on_existing |-> r.on_existing,
                 progressive_number |-> r.progressive_number]]

\* getparams that leaves out.progressive_number as the preview left it
GetparamsKeepsCounter(r, out, pp) ==
    IF pp.ok
    THEN [ok |-> TRUE,
          params |-> [basedir |-> r.basedir,
                      pattern |-> pp.pattern,
                      sidecars |-> parse_sidecars(r.sidecars),
                      name_norm |-> r.name_norm,
                      ext_norm |-> r.ext_norm,
                      allow_whitespace |-> r.allow_whitespace,
                      on_existing |-> r.on_existing,
                      progressive_number |-> IF out.progressive_number = 0
                                             THEN r.progressive_number
                                             ELSE out.progressive_number]]
    ELSE [ok |-> FALSE,
          params |-> [out EXCEPT !.pattern = pp.pattern, !.basedir = r.basedir]]

\* getparams once parse_pattern returned pp: on a failed parse only
\* out.pattern and out.basedir are written and false is returned
GetparamsOf(r, out, pp) ==
    IF pp.ok
    THEN [ok |-> TRUE,
          params |-> [basedir |-> r.basedir,
                      pattern |-> pp.pattern,
                      sidecars |-> parse_sidecars(r.sidecars),
                      name_norm |-> r.name_norm,
                      ext_norm |-> r.ext_norm,
                      allow_whitespace |-> r.allow_whitespace,
                      on_existing |-> r.on_existing,
                      progressive_number |-> r.progressive_number]]
    ELSE [ok |-> FALSE,
          params |-> [out EXCEPT !.pattern = pp.pattern, !.basedir = r.basedir]]

\* getparams of the rename dialog on the entries r, with out as it was
getparams(r, out) == GetparamsOf(r, out, parse_pattern(r.pattern))

\* the preview shown by on_pattern_change once get_new_name returned n
PreviewShown(r, g, n) ==
    [params |-> [g.params EXCEPT !.progressive_number = n.idx],
     preview |-> [shown |-> TRUE, text |-> r.pattern, pattern |-> g.params.pattern,
                  name |-> n.name]]

\* on_pattern_change after getparams returned g: the preview evaluates
\* get_new_name on the selected entry, the first of the list
PreviewOf(r, g, tbe) ==
    IF g.ok /\ Len(tbe) > 0
    THEN PreviewShown(r, g, get_new_name(g.params, tbe[1]))
    ELSE [params |-> g.params, preview |-> NoPreview]

\* on_pattern_change
on_pattern_change(r, out, tbe) == PreviewOf(r, getparams(r, out), tbe)

InitFileCatalog ==
    /\ renaming \in [pattern : PatternTexts,
                     sidecars : SidecarsTexts,
                     name_norm : {OFF},
                     ext_norm : {OFF},
                     allow_whitespace : {TRUE},
                     on_existing : {SKIP, RENAME},
                     progressive_number : DialogStartNumbers,
                     basedir : BaseDirs]
    /\ renaming.progressive_number # 1 =>
           (renaming.sidecars = SidecarsText /\ renaming.basedir = <<>>)
    /\ \E companions \in SUBSET CompanionFiles : \E stray \in {{}, StrayFiles} :
           fsFiles = {Normalize(Entries[k]) : k \in 1..Len(Entries)}
                         \cup companions \cup stray
    /\ fsDirs = {<<"/", "p">>}
    /\ phase = "idle"
    /\ request = "none"
    /\ params = NoParams
    /\ args = <<>>
    /\ move = FALSE
    /\ i_ = 0
    /\ torename = <<>>
    /\ item = NoItem
    /\ progress = <<0, 0>>
    /\ processed = <<>>
    /\ preview = NoPreview

\* FileCatalog::copyMoveRequested(args, move) up to dialog.run(): the dialog
\* is filled from options.renaming and on_pattern_change is run once
CopyMoveRequested(tbe, mv) ==
    /\ phase = "idle"
    /\ phase' = "dialog"
    /\ request' = "copymove"
    /\ args' = tbe
    /\ move' = mv
    /\ \E c \in {on_pattern_change(renaming, params, tbe)} :
           /\ params' = c.params
           /\ preview' = c.preview
    /\ UNCHANGED <<renaming, fsFiles, fsDirs, i_, torename, item, progress, processed>>
    /\ UNCHANGED <<inspVars, patVars, nameVars, browVars>>

\* the pattern entry of the dialog is edited: on_pattern_change
EditPattern(text) ==
    /\ phase = "dialog"
    /\ text # renaming.pattern
    /\ \E r \in {[renaming EXCEPT !.pattern = text]} :
       \E c \in {on_pattern_change(r, params, args)} :
           /\ renaming' = r
           /\ params' = c.params
           /\ preview' = c.preview
    /\ UNCHANGED <<fsFiles, fsDirs, phase, request, args, move, i_, torename, item,
                   progress, processed>>
    /\ UNCHANGED <<inspVars, patVars, nameVars, browVars>>

\* run_with_progress up to dlg.run(): nothing for an empty list, else the
\* progress dialog at 0/N and the idle callback connected
StartProgress(n) ==
    /\ phase' = IF n = 0 THEN "done" ELSE "running"
    /\ i_' = 0
    /\ progress' = IF n = 0 THEN progress ELSE <<0, n>>
    /\ processed' = <<>>
    /\ item' = [NoItem EXCEPT !.files0 = fsFiles, !.dirs0 = fsDirs]

\* the rename dialog is closed: get_params returns
\* (dialog.run() == 1) && getparams(), and copyMoveRequested goes on to
\* run_with_progress when that is true
Accept(response) ==
    /\ phase = "dialog"
    /\ \E g \in {IF response THEN getparams(renaming, params)
                 ELSE [ok |-> FALSE, params |-> params]} :
           /\ params' = g.params
           /\ IF g.ok
              THEN StartProgress(Len(args))
              ELSE /\ phase' = "done"
                   /\ UNCHANGED <<i_, progress, processed, item>>
    /\ UNCHANGED <<renaming, fsFiles, fsDirs, request, args, move, torename, preview>>
    /\ UNCHANGED <<inspVars, patVars, nameVars, browVars>>

\* FileCatalog::deleteRequested(tbe) up to the first idle callback: nothing
\* for an empty list or when the question is not answered with yes
DeleteRequested(tbe, yes) ==
    /\ phase = "idle"
    /\ request' = "delete"
    /\ args' = tbe
    /\ IF Len(tbe) > 0 /\ yes
       THEN /\ params' = [params EXCEPT !.sidecars = parse_sidecars(renaming.sidecars)]
            /\ StartProgress(Len(tbe))
       ELSE /\ phase' = "done"
            /\ UNCHANGED <<params, i_, progress, processed, item>>
    /\ UNCHANGED <<renaming, fsFiles, fsDirs, move, torename, preview>>
    /\ UNCHANGED <<inspVars, patVars, nameVars, browVars>>

\* an idle callback that goes on after the dialog was cancelled
IdleConnectedAfterCancel(ph) == ph \in {"running", "cancelled"}

\* whether the idle callback connected by run_with_progress is still
\* connected: the IdleRegister lives until run_with_progress returns
IdleConnected(ph) == ph = "running"

\* the idle callback of run_with_progress while entries are left:
\* func(args[i]), ++i and the progress i/N
Tick(ioerr) ==
    /\ IdleConnected(phase)
    /\ i_ < Len(args)
    /\ \E f \in {IF request = "delete"
                 THEN func_delete(params, args[i_ + 1], ioerr, fsFiles, fsDirs)
                 ELSE func(params, args[i_ + 1], move, ioerr, fsFiles, fsDirs)} :
           /\ params' = [params EXCEPT !.progressive_number = f.progressive_number]
           /\ torename' = f.torename
           /\ fsFiles' = f.files
           /\ fsDirs' = f.dirs
           /\ item' = [fn |-> args[i_ + 1], index |-> i_ + 1,
                       on_existing |-> params.on_existing,
                       files0 |-> fsFiles, dirs0 |-> fsDirs, plan |-> f.plan,
                       out |-> f.torename, ops |-> f.ops, failed |-> f.failed,
                       errors |-> f.errors]
    /\ i_' = i_ + 1
    /\ progress' = <<i_ + 1, Len(args)>>
    /\ processed' = Append(processed, args[i_ + 1])
    /\ UNCHANGED <<renaming, phase, request, args, move, preview>>
    /\ UNCHANGED <<inspVars, patVars, nameVars, browVars>>

\* an idle callback that closes the dialog after the first entry
FinishAfterFirst ==
    /\ IdleConnected(phase)
    /\ i_ > 0
    /\ phase' = "done"
    /\ UNCHANGED <<renaming, fsFiles, fsDirs, request, params, args, move, i_, torename,
                   item, progress, processed, preview>>
    /\ UNCHANGED <<inspVars, patVars, nameVars, browVars>>

\* the idle callback once i == args.size(): the dialog is closed
Finish ==
    /\ IdleConnected(phase)
    /\ i_ = Len(args)
    /\ phase' = "done"
    /\ UNCHANGED <<renaming, fsFiles, fsDirs, request, params, args, move, i_, torename,
                   item, progress, processed, preview>>
    /\ UNCHANGED <<inspVars, patVars, nameVars, browVars>>

\* the Cancel button of the progress dialog: dlg.run() returns, done = true,
\* and the idle callback goes with the IdleRegister
Cancel ==
    /\ phase = "running"
    /\ i_ < Len(args)
    /\ phase' = "cancelled"
    /\ UNCHANGED <<renaming, fsFiles, fsDirs, request, params, args, move, i_, torename,
                   item, progress, processed, preview>>
    /\ UNCHANGED <<inspVars, patVars, nameVars, browVars>>

\* a file catalog on which nothing is asked
FileCatalogAtRest ==
    /\ InitFileCatalog
    /\ renaming.pattern = <<"%", "f", ".", "%", "e">>
    /\ renaming.on_existing = SKIP
    /\ renaming.basedir = <<>>
    /\ renaming.sidecars = SidecarsText
    /\ renaming.progressive_number = 1
    /\ fsFiles = {Normalize(Entries[k]) : k \in 1..Len(Entries)}

\* an inspector that is never shown
InspectorAtRest ==
    /\ InitInspector
    /\ maxInspectorBuffers = MaxInspectorBuffers
    /\ inspectorDelay = 0

(***************************************************************************)
(* A pattern text: compilation and evaluations.                            *)
(***************************************************************************)
\* the characters the pattern texts are made of: the sigil, directives, a
\* digit, the brackets of a tag and the separator
PatternAlphabet == {"%", "f", "n", "2", "T", "[", "]", "/", "M"}

\* the texts of at most MaxPatternLen characters
ShortTexts == UNION {[1..k -> PatternAlphabet] : k \in 0..MaxPatternLen}

\* further texts: an absolute literal, tags closed and not closed, unknown
\* directives, a padded counter after a literal with a separator, two
\* counters, a counter of pad width 0
LongTexts ==
    { <<"/", "a", "b", "s", "/", "%", "f">>,
      <<"%", "T", "[", "E", "x", "i", "f", ".", "F", "o", "o">>,
      <<"%", "T", "[", "E", "x", "i", "f", ".", "F", "o", "o", "]">>,
      <<"a", "%", "T", "[", "X", "m", "p", ".", "a", "]", "/", "%", "C">>,
      <<"%", "f", "%", "z">>,
      <<"a", "/", "%", "n", "2", "_", "%", "e">>,
      <<"%", "n", "1", "%", "n", "3">>,
      <<"%", "z">>,
      <<"%", "n", "0">> }

PatternInputs == ShortTexts \cup LongTexts

\* the values of the sequence start entry
StartNumbers == {1, 9, 99}

NotCompiled == [done |-> FALSE, ok |-> FALSE, pattern |-> <<>>]

InitPattern ==
    /\ patText \in PatternInputs
    /\ startNumber \in StartNumbers
    /\ metaFile = Entries[2]
    /\ compiled = NotCompiled
    /\ counter = 0
    /\ rendered = <<>>

\* getparams on the text: parse_pattern, and on success the start number
\* is stored in params.progressive_number
Compile ==
    /\ ~compiled.done
    /\ \E pp \in {parse_pattern(patText)} :
           /\ compiled' = [done |-> TRUE, ok |-> pp.ok, pattern |-> pp.pattern]
           /\ counter' = IF pp.ok THEN startNumber ELSE counter
    /\ UNCHANGED <<patText, startNumber, metaFile, rendered>>
    /\ UNCHANGED <<inspVars, renVars, nameVars, browVars>>

\* the loop of get_new_name over the compiled fields, once more
Evaluate ==
    /\ compiled.done
    /\ compiled.ok
    /\ Len(rendered) < MaxEvaluations
    /\ \E r \in {EvalPattern(compiled.pattern, metaFile, counter, <<>>)} :
           /\ rendered' = Append(rendered, r.name)
           /\ counter' = r.idx
    /\ UNCHANGED <<patText, startNumber, metaFile, compiled>>
    /\ UNCHANGED <<inspVars, renVars, nameVars, browVars>>

\* no pattern text under compilation
PatternAtRest ==
    /\ patText = <<>>
    /\ startNumber = 1
    /\ metaFile = Entries[2]
    /\ compiled = NotCompiled
    /\ counter = 0
    /\ rendered = <<>>

(***************************************************************************)
(* A file name handed to the name functions of the rename dialog.          *)
(***************************************************************************)
\* the characters the names are made of: letters of both cases, the dot, a
\* whitespace, the directory separator and the separator of the sidecar list
NameAlphabet == {"a", "B", ".", " ", "/", ";"}

\* the names of at most MaxNameLen characters
NameInputs == UNION {[1..k -> NameAlphabet] : k \in 0..MaxNameLen}

Normalizations == {OFF, UPPERCASE, LOWERCASE}

NoOutcome ==
    [stem |-> <<>>, ext |-> <<>>, name |-> <<>>, newpath |-> <<>>, list |-> <<>>,
     prm |-> NoParams]

InitNames ==
    /\ inText \in NameInputs
    /\ applied = "none"
    /\ outcome = NoOutcome

\* removeExtension and getExtension on the name
SplitExtension ==
    /\ applied = "none"
    /\ applied' = "split"
    /\ outcome' = [NoOutcome EXCEPT !.stem = removeExtension(inText),
                                    !.ext = getExtension(inText)]
    /\ UNCHANGED inText
    /\ UNCHANGED <<inspVars, renVars, patVars, browVars>>

\* get_new_name for a pattern text without directives that parse_pattern
\* accepts: the name evaluated is the text itself
NewName(name_norm, ext_norm, allow_whitespace) ==
    /\ applied = "none"
    /\ \E pp \in {parse_pattern(inText)} :
           /\ pp.ok
           /\ \E prm \in {[NoParams EXCEPT !.pattern = pp.pattern,
                                            !.name_norm = name_norm,
                                            !.ext_norm = ext_norm,
                                            !.allow_whitespace = allow_whitespace]} :
                  /\ applied' = "newname"
                  /\ outcome' = [NoOutcome EXCEPT
                                     !.name = get_new_name(prm, Entries[1]).name,
                                     !.prm = prm]
    /\ UNCHANGED inText
    /\ UNCHANGED <<inspVars, renVars, patVars, browVars>>

\* parse_sidecars on the text of the sidecars entry
ParseSidecars ==
    /\ applied = "none"
    /\ applied' = "sidecars"
    /\ outcome' = [NoOutcome EXCEPT !.list = parse_sidecars(inText)]
    /\ UNCHANGED inText
    /\ UNCHANGED <<inspVars, renVars, patVars, browVars>>

\* get_targets up to the destination, under RENAME, for the entry img.cr2, a
\* pattern text without directives and a file system in which the
\* destination computed first exists
Renumber ==
    /\ applied = "none"
    /\ \E pp \in {parse_pattern(inText)} :
           /\ pp.ok
           /\ \E prm \in {[NoParams EXCEPT !.pattern = pp.pattern,
                                            !.allow_whitespace = TRUE,
                                            !.on_existing = RENAME]} :
              \E planned \in {PlannedPath(path_get_dirname(Entries[1]),
                                          get_new_name(prm, Entries[1]).name)} :
              \E p \in {PlanPrimary(prm, Entries[1],
                                    fsFiles \cup {Normalize(planned)}, fsDirs)} :
                  /\ applied' = "renumber"
                  /\ outcome' = [NoOutcome EXCEPT !.name = p.newname,
                                                  !.newpath = p.newpath,
                                                  !.prm = prm]
    /\ UNCHANGED inText
    /\ UNCHANGED <<inspVars, renVars, patVars, browVars>>

\* no name under the name functions
NamesAtRest ==
    /\ inText = <<>>
    /\ applied = "none"
    /\ outcome = NoOutcome

Init == InitInspector /\ FileCatalogAtRest /\ PatternAtRest /\ NamesAtRest /\ BrowserAtRest

Next ==
    \/ OnDraw
    \/ \E state \in BOOLEAN : SetActive(state)
    \/ \E p \in SwitchPaths : \E surface \in Surfaces(p) : SwitchImage(p, surface)
    \/ \E surface \in Surfaces(next_image_path_) : DelayTimeout(surface)
    \/ \E p \in InspectorPaths : \E surface \in Surfaces(p) : PreloadImage(p, surface)
    \/ FlushBuffers

Spec == Init /\ [][Next]_vars

InitRename == InspectorAtRest /\ InitFileCatalog /\ PatternAtRest /\ NamesAtRest /\ BrowserAtRest

NextRename ==
    \/ \E tbe \in Batches : \E mv \in BOOLEAN : CopyMoveRequested(tbe, mv)
    \/ \E text \in PatternTexts : EditPattern(text)
    \/ \E response \in BOOLEAN : Accept(response)
    \/ \E tbe \in Batches : \E yes \in BOOLEAN : DeleteRequested(tbe, yes)
    \/ \E ioerr \in BOOLEAN : Tick(ioerr)
    \/ Finish
    \/ Cancel

SpecRename == InitRename /\ [][NextRename]_vars

\* what the idle callback of run_with_progress does to i and to the dialog:
\* ++i while entries are left, and else the dialog is closed
IdleCallback ==
    /\ IdleConnected(phase)
    /\ IF i_ < Len(args)
       THEN i_' = i_ + 1 /\ phase' = phase
       ELSE i_' = i_ /\ phase' = "done"

\* the main loop that dlg.run() runs calls the idle callback again and again
\* for as long as it is connected
SpecProgress ==
    /\ InitRename
    /\ [][NextRename]_vars
    /\ WF_<<i_, phase>>(IdleCallback)

InitPatternOnly == InspectorAtRest /\ FileCatalogAtRest /\ InitPattern /\ NamesAtRest /\ BrowserAtRest

NextPattern ==
    \/ Compile
    \/ Evaluate

SpecPattern == InitPatternOnly /\ [][NextPattern]_vars

InitNamesOnly == InspectorAtRest /\ FileCatalogAtRest /\ PatternAtRest /\ InitNames /\ BrowserAtRest

NextNames ==
    \/ SplitExtension
    \/ \E nn \in Normalizations : \E en \in Normalizations : \E ws \in BOOLEAN :
           NewName(nn, en, ws)
    \/ ParseSidecars
    \/ Renumber

SpecNames == InitNamesOnly /\ [][NextNames]_vars

\* an Inspector whose file browser shows all entries
InitInspectorWithBrowser ==
    /\ InitInspector
    /\ maxInspectorBuffers >= 1
    /\ FileCatalogAtRest
    /\ PatternAtRest
    /\ NamesAtRest
    /\ InitBrowser
    /\ entries = AllEntries

\* the program goes on for as long as no read outside the vector ended it
Running == ~probe.crashed

NextInspector ==
    \/ Running /\ OnDraw
    \/ Running /\ \E p \in BrowserPaths : InspectorSwitchImage(p, InspectorBufferDecodes(p))
    \/ Running /\ DelayTimeout(InspectorBufferDecodes(next_image_path_))
    \/ Running /\ IdlePreload(TRUE, TRUE)
    \/ Running /\ \E i \in {0, 1} : OnGrabFocus(i)
    \/ Running /\ SplitToggled

SpecInspector == InitInspectorWithBrowser /\ [][NextInspector]_vars

\* an Inspector with one pane whose file browser changes its list
InitSearch == InspectorAtRest /\ FileCatalogAtRest /\ PatternAtRest /\ NamesAtRest /\ InitBrowser

NextSearch ==
    \/ Running /\ OnDraw
    \/ Running /\ \E p \in BrowserPaths : InspectorSwitchImage(p, InspectorBufferDecodes(p))
    \/ Running /\ IdlePreload(TRUE, TRUE)
    \/ Running /\ \E es \in EntryLists : EntriesChanged(es)

SpecSearch == InitSearch /\ [][NextSearch]_vars

(***************************************************************************)
(* Properties of the inspector cache.                                      *)
(***************************************************************************)
KeySet(c) == {c[i].key : i \in 1..Len(c)}

ValueSet(c) == {c[i].value : i \in 1..Len(c)}

\* the last operation called doCacheImage
IsCall(l) == l.called

\* position of key k in the order of last use (1 = most recently used)
Rank(order, k) == CHOOSE i \in 1..Len(order) : order[i] = k

\* C1: in every reachable state the number of resident entries is at most
\* the capacity, and the capacity is max(options.maxInspectorBuffers, 1),
\* hence at least 1.
C1_SizeWithinCapacity ==
    /\ Len(cache_) <= capacity
    /\ capacity = Max(maxInspectorBuffers, 1)
    /\ capacity >= 1

\* C1 witness: the option is below 1, the capacity was clamped, and a load
\* has filled the cache
C1_Witness ==
    /\ maxInspectorBuffers = 0
    /\ Len(cache_) = capacity
    /\ IsCall(last) /\ last.constructed /\ last.ret # NULL

\* a step of a load that evicts evicts one entry of a full cache, the one
\* whose last use (load or hit) is the oldest
EvictsLeastRecentlyUsed ==
    LET evicted == KeySet(cache_) \ KeySet(cache_')
    IN  (IsCall(last') /\ evicted # {}) =>
            /\ ~last'.hit /\ last'.ret # NULL
            /\ Len(cache_) = capacity
            /\ Cardinality(evicted) = 1
            /\ \A k \in evicted : \A k2 \in KeySet(cache_) \ {k} :
                   /\ k \in KeySet([i \in 1..Len(useOrder) |-> [key |-> useOrder[i]]])
                   /\ k2 \in KeySet([i \in 1..Len(useOrder) |-> [key |-> useOrder[i]]])
                   /\ Rank(useOrder, k2) < Rank(useOrder, k)

\* with capacity 2: load A, load B, hit A, load C evicts B and keeps A;
\* load A, load B, load C evicts A
ScenariosEvictAsStated ==
    /\ (capacity = 2 /\ scen = ScenarioHit) =>
           KeySet(cache_) = {ImagePath(1), ImagePath(3)}
    /\ (capacity = 2 /\ scen = ScenarioNoHit) =>
           KeySet(cache_) = {ImagePath(2), ImagePath(3)}

\* C2: eviction follows least-recently-used order, where a successful load
\* and a cache hit in doCacheImage both count as a use; with capacity 2,
\* A, B, hit A, C evicts B, and A, B, C evicts A.
C2_EvictionIsLRU == [][EvictsLeastRecentlyUsed]_vars /\ []ScenariosEvictAsStated

\* C2 witness: capacity 2 and load A, load B, hit A, load C has just run
C2_Witness == capacity = 2 /\ scen = ScenarioHit

\* C3: immediately after any call to flushBuffers the cache holds zero
\* entries, also when the area is not active and its cache was filled by
\* preloadImage (stated as claimed; the code returns early when not active).
C3_FlushEmptiesCache == last.op = "flushBuffers" => Len(cache_) = 0

\* a failed load returns null and leaves the cache as it was
FailedLoadLeavesCache ==
    /\ (IsCall(last') /\ last'.ret = NULL) => cache_' = cache_
    /\ (IsCall(last') /\ ~last'.hit /\ ~InspectorBufferDecodes(last'.path)) =>
           last'.ret = NULL
    /\ (IsCall(last') /\ last'.ret # NULL) =>
           (last'.hit \/ InspectorBufferDecodes(last'.path))

\* every resident entry is a buffer that loaded: its imgPath is its key
ResidentEntriesLoaded ==
    \A i \in 1..Len(cache_) :
        /\ heap[cache_[i].value].imgPath # <<>>
        /\ heap[cache_[i].value].imgPath = cache_[i].key

\* C4: when the load in doCacheImage fails, doCacheImage returns null, the
\* resident entries and their recency order are as before the call, and no
\* resident entry ever has an empty imgPath.
C4_FailedLoadNoEffect == [][FailedLoadLeavesCache]_vars /\ []ResidentEntriesLoaded

\* C4 witness: the decoder was run by a preload, returned no surface, and
\* the cache holds entries
C4_Witness ==
    /\ last.op = "preloadImage" /\ last.decoded /\ last.ret = NULL
    /\ Len(cache_) > 0

\* doCacheImage constructs an InspectorBuffer exactly when the path is not
\* resident; a preload of a resident path changes neither size nor keys
ConstructsIffNotResident ==
    /\ IsCall(last') =>
           (last'.constructed <=> last'.path \notin KeySet(cache_))
    /\ (last'.op = "preloadImage" /\ last'.path \in KeySet(cache_)) =>
           /\ Len(cache_') = Len(cache_)
           /\ KeySet(cache_') = KeySet(cache_)
           /\ ~last'.constructed /\ ~last'.decoded

\* C5: preloadImage on a resident path leaves the cache size and the set of
\* resident paths unchanged and constructs no InspectorBuffer; doCacheImage
\* constructs one if and only if the path is not resident.
C5_PreloadResidentNoLoad == [][ConstructsIffNotResident]_vars

\* C5 witness: a preload has just hit a resident path in a full cache
C5_Witness ==
    /\ last.op = "preloadImage" /\ last.hit /\ ~last.constructed
    /\ Len(cache_) = capacity /\ capacity > 1

\* the number of shared_ptrs that refer to object id
Holders(id) ==
    Cardinality({i \in 1..Len(cache_) : cache_[i].value = id})
        + (IF cur_image_ = id THEN 1 ELSE 0)

\* an object is alive exactly as long as the cache or cur_image_ refers to it
AliveWhileHeld ==
    /\ \A id \in HeapIds :
           /\ heap[id].alive <=> Holders(id) > 0
           /\ heap[id].use_count = Holders(id)
    /\ cur_image_ # NULL => heap[cur_image_].imgPath # <<>>

\* the buffer cur_image_ keeps referring to is not modified
HeldBufferUnmodified ==
    (cur_image_ # NULL /\ cur_image_' = cur_image_) =>
        heap'[cur_image_] .imgPath = heap[cur_image_].imgPath

\* C6: an entry is freed only when it is neither resident nor held by
\* cur_image_; a reference held outside the cache keeps referring to a live,
\* unmodified entry after the entry was evicted or the cache cleared.
C6_HeldEntryStaysAlive == []AliveWhileHeld /\ [][HeldBufferUnmodified]_vars

\* C6 witness: the entry shown was evicted by later loads and is still alive
C6_Witness ==
    /\ cur_image_ # NULL
    /\ cur_image_ \notin ValueSet(cache_)
    /\ heap[cur_image_].alive
    /\ Len(cache_) = capacity

(***************************************************************************)
(* Properties of get_targets and of the batch step.                        *)
(***************************************************************************)
\* the func of copyMoveRequested has run on an entry
Processed == request = "copymove" /\ item.index > 0

\* <dir>/<stem>_k.<ext> for the destination pth = <dir>/<stem>.<ext>
Numbered(pth, k) ==
    removeExtension(pth) \o <<"_">> \o to_string(k)
        \o (IF getExtension(pth) # <<>> THEN <<".">> \o getExtension(pth) ELSE <<>>)

\* the destination the companion comp of fn has next to the primary
\* destination prim
CompanionOf(fn, comp, prim, sidecars) ==
    (IF comp = getParamFile(fn) THEN {getParamFile(prim)} ELSE {})
    \cup {prim \o <<".">> \o Tail(sidecars[k]) :
             k \in {j \in 1..Len(sidecars) :
                       /\ Head(sidecars[j]) = "+"
                       /\ comp = fn \o <<".">> \o Tail(sidecars[j])}}
    \cup {removeExtension(prim) \o <<".">> \o sidecars[k] :
             k \in {j \in 1..Len(sidecars) :
                       /\ Head(sidecars[j]) # "+"
                       /\ comp = removeExtension(fn) \o <<".">> \o sidecars[j]}}

\* C7: under the rename policy an existing destination D = <dir>/<stem>.<ext>
\* is resolved to <dir>/<stem>_k.<ext>, in the directory of D, for the
\* smallest k >= 1 for which that path does not exist, whatever the basedir.
C7_ConflictRenumbersInPlace ==
    (Processed /\ item.plan.conflict /\ item.on_existing = RENAME) =>
        /\ Len(item.out) > 0
        /\ \E k \in 1..(Cardinality(item.files0) + Cardinality(item.dirs0) + 1) :
               /\ Normalize(item.out[1][2]) = Normalize(Numbered(item.plan.planned, k))
               /\ ~FileExists(Numbered(item.plan.planned, k), item.files0, item.dirs0)
               /\ \A j \in 1..(k - 1) :
                      FileExists(Numbered(item.plan.planned, j), item.files0, item.dirs0)

\* C8: in every list get_targets returns, the destination of the parameter
\* file and of each sidecar is derived from the resolved primary destination,
\* the first pair's, and never from the name that was in conflict.
C8_CompanionsFollowResolved ==
    (Processed /\ Len(item.out) > 0) =>
        /\ item.out[1][1] = item.fn
        /\ item.out[1][2] = item.plan.newpath
        /\ \A k \in 2..Len(item.out) :
               item.out[k][2] \in
                   CompanionOf(item.fn, item.out[k][1], item.out[1][2], params.sidecars)

\* C8 witness: a destination in conflict was renumbered and companions go
\* with it
C8_Witness ==
    /\ Processed
    /\ item.plan.conflict
    /\ item.on_existing = RENAME
    /\ Len(item.out) >= 3
    /\ item.out[1][2] # item.plan.planned

\* C11: in every non-empty list get_targets returns, the first pair is the
\* entry's own file, every other source existed when the list was computed,
\* and no source occurs twice, whatever the suffixes (repeated, resolving to
\* the entry or to its parameter file).
C11_SourcesExistOnce ==
    (Processed /\ Len(item.out) > 0) =>
        /\ item.out[1][1] = item.fn
        /\ \A k \in 2..Len(item.out) : FileExists(item.out[k][1], item.files0, item.dirs0)
        /\ \A j, k \in 1..Len(item.out) : j # k => item.out[j][1] # item.out[k][1]

\* C11 witness: with the suffixes xmp, xmp, cr2 and +arp and both img.xmp
\* and the parameter file on disk, img.cr2 was planned with three pairs
C11_Witness ==
    /\ Processed
    /\ item.fn = <<"i", "m", "g", ".", "c", "r", "2">>
    /\ params.sidecars = << <<"x", "m", "p">>, <<"x", "m", "p">>, <<"c", "r", "2">>,
                            <<"+", "a", "r", "p">> >>
    /\ {<<"i", "m", "g", ".", "x", "m", "p">>,
        <<"i", "m", "g", ".", "c", "r", "2", ".", "a", "r", "p">>} \subseteq item.files0
    /\ Len(item.out) = 3

\* the sidecar of pth for the suffix s as the rule states it
StatedSidecar(pth, s) ==
    IF Head(s) = "+" THEN pth \o <<".">> \o Tail(s)
    ELSE removeExtension(pth) \o <<".">> \o s

\* the suffixes configured for the batch
Suffixes == {params.sidecars[k] : k \in 1..Len(params.sidecars)}

\* the func of deleteRequested has run on an entry
Deleted == request = "delete" /\ item.index > 0

\* the paths the last run of func removed
RemovedPaths == {item.ops[k][1] : k \in 1..Len(item.ops)}

\* copy and move: every pair after the first is the parameter file's or
\* follows the rule for some suffix, for its source on the entry and for its
\* destination on the primary destination; every suffix whose sidecar exists
\* has its pair
PlannedSidecarsFollowRule ==
    (Processed /\ Len(item.out) > 0) =>
        /\ \A k \in 2..Len(item.out) :
               \/ item.out[k][1] = getParamFile(item.fn)
               \/ \E s \in Suffixes :
                      item.out[k] = <<StatedSidecar(item.fn, s),
                                      StatedSidecar(item.out[1][2], s)>>
        /\ \A s \in Suffixes :
               (/\ FileExists(StatedSidecar(item.fn, s), item.files0, item.dirs0)
                /\ StatedSidecar(item.fn, s) # item.fn)
               => \E k \in 2..Len(item.out) :
                      /\ item.out[k][1] = StatedSidecar(item.fn, s)
                      /\ item.out[k][2] = StatedSidecar(item.out[1][2], s)

\* delete: what is removed besides the entry and its parameter file follows
\* the rule for some suffix, and every suffix whose sidecar existed has it
\* removed
DeletedSidecarsFollowRule ==
    Deleted =>
        /\ \A q \in RemovedPaths :
               \/ q \in {item.fn, getParamFile(item.fn)}
               \/ \E s \in Suffixes : q = StatedSidecar(item.fn, s)
        /\ \A s \in Suffixes :
               (/\ FileExists(StatedSidecar(item.fn, s), item.files0, item.dirs0)
                /\ StatedSidecar(item.fn, s) # item.fn)
               => /\ StatedSidecar(item.fn, s) \in RemovedPaths
                  /\ ~FileExists(StatedSidecar(item.fn, s), fsFiles, fsDirs)

\* C12: for each suffix s, in the planning of copy and move and in delete,
\* the sidecar of a path is the path followed by '.' and s without its '+'
\* when s begins with '+', and else the path without its extension followed
\* by '.' and s; the destination of a sidecar is built by the same rule on
\* the primary destination.
C12_SidecarNamingRule == PlannedSidecarsFollowRule /\ DeletedSidecarsFollowRule

\* C12 witness: img.cr2 was planned with its sidecars img.xmp (suffix xmp) and
\* img.cr2.thumb (suffix +thumb)
C12_Witness ==
    /\ Processed
    /\ item.fn = <<"i", "m", "g", ".", "c", "r", "2">>
    /\ \E j, k \in 2..Len(item.out) :
           /\ item.out[j][1] = <<"i", "m", "g", ".", "x", "m", "p">>
           /\ item.out[k][1] = <<"i", "m", "g", ".", "c", "r", "2", ".", "t", "h", "u", "m", "b">>

\* img.cr2 was deleted with its sidecars img.xmp and img.cr2.thumb
C12_DeleteReached ==
    /\ Deleted
    /\ item.fn = <<"i", "m", "g", ".", "c", "r", "2">>
    /\ {<<"i", "m", "g", ".", "x", "m", "p">>,
        <<"i", "m", "g", ".", "c", "r", "2", ".", "t", "h", "u", "m", "b">>}
           \subseteq RemovedPaths

\* a name shown in the preview was evaluated from the fields of a successful
\* parse of the text it is shown for
PreviewFromCompletePattern ==
    preview.shown =>
        /\ parse_pattern(preview.text).ok
        /\ preview.pattern = parse_pattern(preview.text).pattern

\* a batch of copies or moves runs on the fields of a successful parse of the
\* dialog's text
BatchFromCompletePattern ==
    (request = "copymove" /\ (phase \in {"running", "cancelled"} \/ item.index > 0)) =>
        /\ parse_pattern(renaming.pattern).ok
        /\ params.pattern = parse_pattern(renaming.pattern).pattern

\* while the dialog's text does not parse, nothing is previewed, planned or
\* done
FailedParseDoesNothing ==
    (request = "copymove" /\ ~parse_pattern(renaming.pattern).ok) =>
        /\ ~preview.shown
        /\ phase \in {"dialog", "done"}
        /\ item = NoItem
        /\ torename = <<>>

\* closing the dialog on a text that does not parse ends the request with
\* the file system as it was
FailedParseEndsRequest ==
    (phase = "dialog" /\ phase' # "dialog" /\ ~parse_pattern(renaming.pattern).ok) =>
        /\ phase' = "done"
        /\ UNCHANGED <<fsFiles, fsDirs, item, torename, processed>>

\* C13: no partial pattern is used: when parse_pattern fails on the dialog's
\* text, get_params returns false and copyMoveRequested plans nothing,
\* creates no directory, renames and copies nothing; the fields the failed
\* parse left in params.pattern are evaluated neither for the preview nor for
\* the batch.
C13_NoPartialPattern ==
    /\ PreviewFromCompletePattern
    /\ BatchFromCompletePattern
    /\ FailedParseDoesNothing
    /\ [][FailedParseEndsRequest]_vars

\* C13 witness: the dialog was closed on a text whose failed parse left
\* fields in params.pattern, for a list that is not empty
C13_Witness ==
    /\ request = "copymove"
    /\ phase = "done"
    /\ Len(args) > 0
    /\ ~parse_pattern(renaming.pattern).ok
    /\ params.pattern # <<>>
    /\ item = NoItem

\* the example: basedir "out", pattern "%f_%n3", sidecars "xmp;+thumb",
\* start 1, source "img.cr2", with "img.xmp" and without "img.cr2.thumb"
\* (and without a parameter file)
ExampleCase ==
    /\ Processed
    /\ item.index = 1
    /\ item.fn = <<"i", "m", "g", ".", "c", "r", "2">>
    /\ renaming.basedir = <<"o", "u", "t">>
    /\ renaming.pattern = <<"%", "f", "_", "%", "n", "3">>
    /\ renaming.sidecars = <<"x", "m", "p", ";", "+", "t", "h", "u", "m", "b">>
    /\ renaming.progressive_number = 1
    /\ item.files0 \cap CompanionFiles = {<<"i", "m", "g", ".", "x", "m", "p">>}
    /\ ~item.plan.conflict

\* the paths of a list of pairs as the file system resolves them
Resolved(out) == [k \in 1..Len(out) |-> <<Normalize(out[k][1]), Normalize(out[k][2])>>]

\* C9 as stated: the destination carries the source's extension; in the
\* example the result is [("img.cr2","out/img_001.cr2"),
\* ("img.xmp","out/img_001.xmp")].
C9_ExampleAsStated ==
    ExampleCase =>
        Resolved(item.out) =
            << << <<"i", "m", "g", ".", "c", "r", "2">>,
                  <<"o", "u", "t", "/", "i", "m", "g", "_", "0", "0", "1", ".", "c", "r", "2">> >>,
               << <<"i", "m", "g", ".", "x", "m", "p">>,
                  <<"o", "u", "t", "/", "i", "m", "g", "_", "0", "0", "1", ".", "x", "m", "p">> >> >>

\* the names get_targets looks at after fn: the parameter file, then one
\* name per suffix
CompanionNames(fn, sidecars) ==
    <<getParamFile(fn)>>
        \o [k \in 1..Len(sidecars) |->
               IF Head(sidecars[k]) = "+"
               THEN fn \o <<".">> \o Tail(sidecars[k])
               ELSE removeExtension(fn) \o <<".">> \o sidecars[k]]

\* the positions of names that are neither fn nor a name at an earlier position
FirstOccurrences(fn, names) ==
    {k \in 1..Len(names) : names[k] # fn /\ \A j \in 1..(k - 1) : names[j] # names[k]}

\* the companions of fn that exist, each once, in the order get_targets
\* looks at them
ExistingCompanions(fn, sidecars, files, dirs) ==
    LET names == CompanionNames(fn, sidecars)
        kept == FirstOccurrences(fn, names)
        pick == [k \in 1..Len(names) |->
                    IF k \in kept /\ FileExists(names[k], files, dirs)
                    THEN <<names[k]>> ELSE <<>>]
        flat[k \in 0..Len(names)] == IF k = 0 THEN <<>> ELSE flat[k - 1] \o pick[k]
    IN  flat[Len(names)]

\* C9 amended: for a free destination get_targets returns the primary pair
\* first, its destination being the evaluated pattern under basedir, under
\* the directory of the source when that is relative, with no extension the
\* pattern does not produce; then one pair per existing companion (parameter
\* file, then sidecars), sidecars that do not exist, that are the source or
\* that are already listed being left out.  In the
\* example the result is [("img.cr2","./out/img_001"),
\* ("img.xmp","./out/img_001.xmp")].
C9_FreeDestination ==
    /\ (Processed /\ ~item.plan.conflict) =>
           /\ item.out[1] = <<item.fn, item.plan.planned>>
           /\ [k \in 1..(Len(item.out) - 1) |-> item.out[k + 1][1]]
                  = ExistingCompanions(item.fn, params.sidecars, item.files0, item.dirs0)
           /\ (renaming.pattern = <<"%", "f", "_", "%", "n", "3">>
                   => getExtension(item.out[1][2]) = <<>>)
    /\ ExampleCase =>
           item.out =
               << << <<"i", "m", "g", ".", "c", "r", "2">>,
                     <<".", "/", "o", "u", "t", "/", "i", "m", "g", "_", "0", "0", "1">> >>,
                  << <<"i", "m", "g", ".", "x", "m", "p">>,
                     <<".", "/", "o", "u", "t", "/", "i", "m", "g", "_", "0", "0", "1",
                       ".", "x", "m", "p">> >> >>

\* C9 witness: the example has been planned
C9_Witness == ExampleCase /\ Len(item.out) = 2

\* the item just processed met an existing destination under SKIP
Skipped == Processed /\ item.plan.conflict /\ item.on_existing = SKIP

\* after a skipped item nothing was planned or done and the file system is
\* as it was
SkipLeavesNothing ==
    Skipped =>
        /\ item.out = <<>>
        /\ torename = <<>>
        /\ item.ops = <<>>
        /\ item.errors = <<>>
        /\ fsFiles = item.files0
        /\ fsDirs = item.dirs0

\* the step that skips an item changes no file and no directory and leaves
\* the batch running at the next entry
SkipStepContinues ==
    (i_' = i_ + 1 /\ Skipped') =>
        /\ UNCHANGED <<fsFiles, fsDirs, args>>
        /\ phase' = "running"
        /\ item'.index = i_'

\* C10: under the skip policy an existing destination makes get_targets
\* return an empty list; the step for that item creates no directory,
\* renames and copies nothing (primary or sidecar), reports no error, and
\* the batch goes on with the next item.
C10_SkipDoesNothing == []SkipLeavesNothing /\ [][SkipStepContinues]_vars

\* C10 witness: an item with existing companions was skipped and the batch
\* has a next entry
C10_Witness ==
    /\ Skipped
    /\ FileExists(getParamFile(item.fn), item.files0, item.dirs0)
    /\ phase = "running"
    /\ i_ < Len(args)

(***************************************************************************)
(* Properties of run_with_progress.                                        *)
(***************************************************************************)
\* the entries func was called on are the first i_ of the list, in its
\* order, none twice, and the progress shown is i_ of N
ProcessedInListOrder ==
    /\ i_ <= Len(args)
    /\ processed = SubSeq(args, 1, i_)
    /\ \A j, k \in 1..Len(processed) : j # k => processed[j] # processed[k]
    /\ phase \in {"running", "cancelled"} => progress = <<i_, Len(args)>>
    /\ (i_ > 0 /\ phase = "done") => progress = <<i_, Len(args)>>

\* for an empty list func is never called and no progress is shown
EmptyListDoesNothing ==
    (Len(args) = 0) =>
        /\ phase # "running"
        /\ item.index = 0
        /\ processed = <<>>
        /\ progress = <<0, 0>>

\* a step calls func on at most one entry, the next of the list, and the
\* progress dialog is closed by the callback only when every entry has been
\* processed
OneItemPerTick ==
    /\ processed' # processed =>
           \/ processed' = <<>>
           \/ /\ i_ < Len(args)
              /\ processed' = Append(processed, args[i_ + 1])
              /\ item'.fn = args[i_ + 1]
              /\ progress' = <<Len(processed'), Len(args)>>
    /\ (phase = "running" /\ phase' = "done") =>
           /\ processed = args
           /\ UNCHANGED processed

\* a batch that is not cancelled ends with every entry processed
RunsToTheEnd ==
    (phase = "running") ~> (phase = "cancelled" \/ (phase = "done" /\ processed = args))

\* C18: run_with_progress processes the N entries in list order, one per
\* idle tick and each at most once; after the k-th the progress is k of N;
\* unless cancelled, eventually every entry has been processed once, and only
\* then is the dialog closed; for an empty list func is not called and no
\* dialog is shown.
C18_OnePerTickInOrder ==
    /\ []ProcessedInListOrder
    /\ []EmptyListDoesNothing
    /\ [][OneItemPerTick]_vars
    /\ RunsToTheEnd

\* C18 witness: a list of three entries was processed to its end and the
\* dialog closed
C18_Witness ==
    /\ phase = "done"
    /\ Len(args) = 3
    /\ processed = args
    /\ progress = <<3, 3>>

\* once the dialog is cancelled func is never called again: the entries
\* processed, the file system and what the last call did stay as they are
NothingAfterCancel ==
    (phase = "cancelled") =>
        UNCHANGED <<phase, i_, processed, progress, item, torename, fsFiles, fsDirs>>

\* the step that cancels leaves what was done as it is
CancelUndoesNothing ==
    (phase = "running" /\ phase' = "cancelled") =>
        UNCHANGED <<i_, processed, item, torename, fsFiles, fsDirs>>

\* the last entry func was called on before the cancellation was processed
\* to its end: every pair planned for it was carried out or reported
LastItemCompleted ==
    (phase = "cancelled" /\ i_ > 0) =>
        /\ item.index = i_
        /\ item.fn = args[i_]
        /\ processed = SubSeq(args, 1, i_)
        /\ request = "copymove" => Len(item.ops) + Len(item.failed) = Len(item.out)

\* C19: cancellation is cooperative: once the progress dialog has been
\* cancelled func is not called again for any remaining entry, the entry in
\* progress at the cancellation is completed, and what the processed entries
\* did is not undone.
C19_CancelIsCooperative ==
    /\ []LastItemCompleted
    /\ [][NothingAfterCancel /\ CancelUndoesNothing]_vars

\* C19 witness: a batch was cancelled after its first entry changed the file
\* system, with entries left
C19_Witness ==
    /\ phase = "cancelled"
    /\ i_ > 0
    /\ i_ < Len(args)
    /\ Len(item.ops) > 0
    /\ fsFiles # item.files0

\* every operation of the last copy or move that failed was reported with
\* its source and its destination
CopyMoveFailureReported == Processed => item.errors = item.failed

\* every operation of the last call of func that failed was reported
FailureReported == item.index > 0 => item.errors = item.failed

\* a call of func in which an operation failed leaves the batch running at
\* the next entry
FailureContinues ==
    (i_' = i_ + 1 /\ Len(item'.failed) > 0) =>
        /\ phase' = "running"
        /\ item'.index = i_'
        /\ UNCHANGED args

\* the func of copyMoveRequested met a failure and reported it
CopyMoveFailureReached ==
    /\ Processed
    /\ Len(item.failed) > 0
    /\ item.errors = item.failed
    /\ i_ < Len(args)

\* C20: a failure of the file system on one entry of a batch (rename, copy
\* or delete) does not stop the batch: the entry is reported to the parent
\* window with its source and destination, and the remaining entries are
\* still processed.
C20_FailureReportedBatchContinues == []FailureReported /\ [][FailureContinues]_vars

(***************************************************************************)
(* Properties of parse_pattern and of the evaluation of a pattern.         *)
(***************************************************************************)
\* the characters that complete a directive after the sigil
DirectiveTable == FramesDataDirectives \cup {"n", "T"}

\* the position of the first ']' of s at or after k (1-based), or 0
FirstClose(s, k) ==
    IF \E j \in k..Len(s) : s[j] = "]"
    THEN CHOOSE j \in k..Len(s) : s[j] = "]" /\ \A h \in k..(j - 1) : s[h] # "]"
    ELSE 0

\* reading s from position k (1-based), a sigil is met that no complete
\* directive follows: it is the last character, or the next character is not
\* in the table, or it is a T without a '[' or without a ']' after it
RECURSIVE IncompleteFrom(_, _)
IncompleteFrom(s, k) ==
    IF k > Len(s) THEN FALSE
    ELSE IF s[k] # "%" THEN IncompleteFrom(s, k + 1)
    ELSE IF k = Len(s) THEN TRUE
    ELSE IF s[k + 1] \notin DirectiveTable THEN TRUE
    ELSE IF s[k + 1] # "T" THEN IncompleteFrom(s, k + 2)
    ELSE IF k + 2 > Len(s) \/ s[k + 2] # "[" THEN TRUE
    ELSE IF FirstClose(s, k + 3) = 0 THEN TRUE
    ELSE IncompleteFrom(s, FirstClose(s, k + 3) + 1)

\* C14: parse_pattern fails whenever a sigil is not followed by a complete
\* directive of the table, wherever in the text: a '%' at the end, a '%'
\* before a character outside the table ("%z"), a "%T" without '[' and a
\* "%T[" without ']' ("%T[Exif.Foo").
C14_IncompleteDirectiveFails ==
    compiled.done =>
        /\ IncompleteFrom(patText, 1) => ~compiled.ok
        /\ patText \in { <<"%">>, <<"%", "z">>, <<"%", "f", "%", "z">>, <<"%", "T">>,
                         <<"%", "T", "f">>, <<"f", "%", "T">>,
                         <<"%", "T", "[", "E", "x", "i", "f", ".", "F", "o", "o">> }
               => ~compiled.ok

\* C14 witness: "%f%z" was refused after its first directive was compiled
C14_Witness ==
    /\ compiled.done
    /\ ~compiled.ok
    /\ patText = <<"%", "f", "%", "z">>
    /\ Len(compiled.pattern) = 1

\* C15: parse_pattern refuses every text whose first field is a literal
\* that is an absolute path ("/abs/%f"): no compiled pattern begins with an
\* absolute literal.
C15_AbsoluteLiteralRefused ==
    compiled.done =>
        /\ (Len(patText) > 0 /\ patText[1] = "/") => ~compiled.ok
        /\ compiled.ok =>
               ~(/\ compiled.pattern[1].kind = "Fixed"
                 /\ Len(compiled.pattern[1].s) > 0
                 /\ compiled.pattern[1].s[1] = "/")

\* C15 witness: "/abs/%f" was read to its end, both fields compiled, and
\* refused
C15_Witness ==
    /\ compiled.done
    /\ ~compiled.ok
    /\ patText = <<"/", "a", "b", "s", "/", "%", "f">>
    /\ Len(compiled.pattern) = 2

\* how many times the character c occurs in s
Count(s, c) == Cardinality({k \in 1..Len(s) : s[k] = c})

\* what the provider answers for a computed field, before make_valid
RawValue(f, fn) ==
    IF f.kind = "FramesData" THEN FramesDataValue(f.s[1], fn)
    ELSE IF f.kind = "Tag" THEN TagValue(f.s)
    ELSE <<>>

\* the separators typed in the literal fields of a pattern
RECURSIVE LiteralSeparators(_)
LiteralSeparators(pattern) ==
    IF Len(pattern) = 0 THEN 0
    ELSE (IF Head(pattern).kind = "Fixed" THEN Count(Head(pattern).s, "/") ELSE 0)
             + LiteralSeparators(Tail(pattern))

\* the separators in the values of the computed fields of a pattern
RECURSIVE ComputedSeparators(_, _)
ComputedSeparators(pattern, fn) ==
    IF Len(pattern) = 0 THEN 0
    ELSE Count(RawValue(Head(pattern), fn), "/") + ComputedSeparators(Tail(pattern), fn)

\* C16: the name a compiled pattern evaluates to has a separator only where
\* one was typed in a literal segment; every separator in the value of a
\* computed field is replaced, one for one, by U+2215: none is passed
\* through and none is dropped.
C16_SeparatorsOnlyFromLiterals ==
    \A k \in 1..Len(rendered) :
        /\ Count(rendered[k], "/") = LiteralSeparators(compiled.pattern)
        /\ Count(rendered[k], DivisionSlash) = ComputedSeparators(compiled.pattern, metaFile)

\* C16 witness: "a%T[Xmp.a]/%C" was evaluated: one separator typed, and one
\* in the value of the tag and one in the make replaced
C16_Witness ==
    /\ patText = <<"a", "%", "T", "[", "X", "m", "p", ".", "a", "]", "/", "%", "C">>
    /\ Len(rendered) > 0
    /\ Count(rendered[1], "/") = 1
    /\ Count(rendered[1], DivisionSlash) = 2

\* the pad width written after "%n", or 0
PadOf(text) == IF Len(text) = 3 THEN DigitValue(text[3]) ELSE 0

\* n in decimal, with zeros before it up to w characters
Padded(n, w) ==
    IF Len(to_string(n)) < w THEN Zeros(w - Len(to_string(n))) \o to_string(n)
    ELSE to_string(n)

\* the text is one %n directive
SingleCounter ==
    /\ Len(patText) \in {2, 3}
    /\ patText[1] = "%"
    /\ patText[2] = "n"
    /\ Len(patText) = 3 => IsDigit(patText[3])

\* the k-th evaluation of a single %n renders startNumber + k - 1 padded
CounterRendersInOrder ==
    SingleCounter =>
        /\ compiled.done => compiled.ok
        /\ \A k \in 1..Len(rendered) :
               rendered[k] = Padded(startNumber + k - 1, PadOf(patText))
        /\ (patText = <<"%", "n", "2">> /\ startNumber = 1 /\ Len(rendered) >= 2)
               => SubSeq(rendered, 1, 2) = << <<"0", "1">>, <<"0", "2">> >>
        /\ (patText = <<"%", "n", "2">> /\ startNumber = 99 /\ Len(rendered) >= 2)
               => SubSeq(rendered, 1, 2) = << <<"9", "9">>, <<"1", "0", "0">> >>
        /\ (PadOf(patText) = 0 /\ startNumber = 9 /\ Len(rendered) >= 2)
               => SubSeq(rendered, 1, 2) = << <<"9">>, <<"1", "0">> >>

\* no step lowers the counter
CounterNeverDecreases == counter' >= counter

\* C17: for a pattern that is a single %n with pad digit W and start s, the
\* k-th evaluation renders s + k - 1 in decimal, with zeros before it up to
\* W characters, unpadded when W is 0 or absent and never truncated; the
\* counter never decreases.  "%n2" with start 1 yields "01" then "02".
C17_CounterPaddedInOrder == []CounterRendersInOrder /\ [][CounterNeverDecreases]_vars

\* C17 witness: "%n2" with start 1 was evaluated twice
C17_Witness ==
    /\ patText = <<"%", "n", "2">>
    /\ startNumber = 1
    /\ rendered = << <<"0", "1">>, <<"0", "2">> >>
    /\ counter = 3

(***************************************************************************)
(* Properties of the name functions.                                       *)
(***************************************************************************)
\* the position of the last character of s that satisfies Test, or 0
LastWhere(s, Test(_)) ==
    IF \E k \in 1..Len(s) : Test(s[k])
    THEN CHOOSE k \in 1..Len(s) : Test(s[k]) /\ \A j \in (k + 1)..Len(s) : ~Test(s[j])
    ELSE 0

IsNoSeparator(c) == ~IsDirSeparator(c)

IsDot(c) == c = "."

\* the final path segment of a name and where it starts and ends in the
\* name: the characters between the last separator that has a character
\* other than a separator after it, and the separators at the end
SegmentEnd(f) == LastWhere(f, IsNoSeparator)

SegmentStart(f) == LastWhere(SubSeq(f, 1, SegmentEnd(f)), IsDirSeparator) + 1

FinalSegment(f) == SubSeq(f, SegmentStart(f), SegmentEnd(f))

\* the final segment has a dot with no whitespace after it
ExtensionRecognised(f) ==
    LET seg == FinalSegment(f)
        dot == LastWhere(seg, IsDot)
    IN  dot > 0 /\ \A k \in (dot + 1)..Len(seg) : ~IsSpace(seg[k])

\* the extension by the stated rule: the text after the last dot of the
\* final segment
RuleExtension(f) ==
    LET seg == FinalSegment(f)
    IN  IF ExtensionRecognised(f)
        THEN SubSeq(seg, LastWhere(seg, IsDot) + 1, Len(seg))
        ELSE <<>>

\* the name without the last dot of its final segment and the extension
RuleStem(f) ==
    LET seg == FinalSegment(f)
        dot == SegmentStart(f) + LastWhere(seg, IsDot) - 1
    IN  IF ExtensionRecognised(f)
        THEN SubSeq(f, 1, dot - 1) \o SubSeq(f, SegmentEnd(f) + 1, Len(f))
        ELSE f

NormalizedText(s, norm, allow_whitespace) ==
    [k \in 1..Len(s) |-> Normalized(s[k], norm, allow_whitespace)]

\* the name get_new_name returns when it splits by the stated rule
RuleNewName(f, prm) ==
    IF RuleExtension(f) # <<>>
    THEN NormalizedText(RuleStem(f), prm.name_norm, prm.allow_whitespace)
         \o NormalizedText(<<".">> \o RuleExtension(f), prm.ext_norm, prm.allow_whitespace)
    ELSE NormalizedText(f, prm.name_norm, prm.allow_whitespace)

\* the three functions split the name by the stated rule
SplitByRule(f) ==
    /\ applied = "split" =>
           /\ outcome.ext = RuleExtension(f)
           /\ outcome.stem = RuleStem(f)
    /\ applied = "newname" => outcome.name = RuleNewName(f, outcome.prm)

\* a name that does not end in a separator is split by the stated rule
FileNamesSplitByRule ==
    (Len(inText) > 0 /\ ~IsDirSeparator(inText[Len(inText)])) => SplitByRule(inText)

\* C21: the extension of a name is the text after the last dot of its final
\* path segment, recognised only if no whitespace follows that dot;
\* getExtension, removeExtension and the split in get_new_name all apply this
\* rule, and dots in directory components never count.
C21_ExtensionRule == SplitByRule(inText)

\* the concatenation of the field renderings get_new_name starts from
FieldRenderings(prm) ==
    EvalPattern(prm.pattern, Entries[1], prm.progressive_number, <<>>).name

\* what is stated of the name get_new_name returns for the evaluated name x
NewNameAsStated(x, prm, name) ==
    /\ name = IF getExtension(x) # <<>>
              THEN NormalizedText(removeExtension(x), prm.name_norm, prm.allow_whitespace)
                   \o NormalizedText(<<".">> \o getExtension(x), prm.ext_norm,
                                     prm.allow_whitespace)
              ELSE NormalizedText(x, prm.name_norm, prm.allow_whitespace)
    /\ ~prm.allow_whitespace =>
           /\ Len(name) = Len(x)
           /\ \A k \in 1..Len(name) :
                  /\ ~IsSpace(name[k])
                  /\ IsSpace(x[k]) => name[k] = "_"
    /\ (prm.name_norm = OFF /\ prm.ext_norm = OFF /\ prm.allow_whitespace) => name = x

\* a new name made of renderings that do not end in a separator is as stated
NewFileNameAsStated ==
    (applied = "newname" /\ ~IsDirSeparator(inText[Len(inText)]))
        => NewNameAsStated(FieldRenderings(outcome.prm), outcome.prm, outcome.name)

\* C22: get_new_name normalizes the stem by name_norm and the extension by
\* ext_norm, independently; when whitespace is not allowed every whitespace
\* character of the evaluated name is replaced by '_', so that the name has
\* no whitespace before basedir is prepended; with both normalizations off
\* and whitespace allowed the name is the concatenation of the field
\* renderings.
C22_NewNameNormalized ==
    applied = "newname"
        => NewNameAsStated(FieldRenderings(outcome.prm), outcome.prm, outcome.name)

IsNoSpace(c) == ~IsSpace(c)

\* s without the whitespace at its two ends
WithoutOuterSpace(s) ==
    IF \E k \in 1..Len(s) : IsNoSpace(s[k])
    THEN SubSeq(s, CHOOSE k \in 1..Len(s) :
                       IsNoSpace(s[k]) /\ \A j \in 1..(k - 1) : IsSpace(s[j]),
                LastWhere(s, IsNoSpace))
    ELSE <<>>

\* the segments of s between its ';', empty ones included
RECURSIVE SegmentsOf(_, _, _)
SegmentsOf(s, cur, acc) ==
    IF Len(s) = 0 THEN Append(acc, cur)
    ELSE IF Head(s) = ";" THEN SegmentsOf(Tail(s), <<>>, Append(acc, cur))
    ELSE SegmentsOf(Tail(s), Append(cur, Head(s)), acc)

IsNonEmpty(e) == Len(e) > 0

\* the trimmed non-empty segments of s, in order
StatedSidecars(s) ==
    LET segs == SegmentsOf(s, <<>>, <<>>)
    IN  SelectSeq([k \in 1..Len(segs) |-> WithoutOuterSpace(segs[k])], IsNonEmpty)

\* what is stated of the list parse_sidecars makes of s
SidecarsAsStated(s, list) ==
    /\ list = StatedSidecars(s)
    /\ \A k \in 1..Len(list) :
           /\ Len(list[k]) > 0
           /\ ~IsSpace(list[k][1])
           /\ ~IsSpace(list[k][Len(list[k])])
           /\ \A j \in 1..Len(list[k]) : list[k][j] # ";"

\* a text in which no ';' comes right after another one
NoSeparatorTwice(s) == \A k \in 1..(Len(s) - 1) : ~(s[k] = ";" /\ s[k + 1] = ";")

\* the list is as stated when no ';' comes right after another one
SeparatedSidecarsAsStated ==
    (applied = "sidecars" /\ NoSeparatorTwice(inText))
        => SidecarsAsStated(inText, outcome.list)

\* C23: parse_sidecars splits at every ';' and yields, in order, exactly the
\* trimmed non-empty segments: no entry is empty, begins or ends with
\* whitespace or contains ';', whatever the input, consecutive, leading and
\* trailing separators included.
C23_SidecarsTrimmedSegments ==
    applied = "sidecars" => SidecarsAsStated(inText, outcome.list)

\* the extension and the stem put together again give the name
SplitWithoutLoss(f, stem, ext) ==
    IF ext # <<>> THEN stem \o <<".">> \o ext = f ELSE stem = f

\* nn with "_k" put in at some place, for some number k
WithNumberInserted(nn) ==
    { SubSeq(nn, 1, p) \o <<"_">> \o to_string(k) \o SubSeq(nn, p + 1, Len(nn)) :
          p \in 0..Len(nn), k \in 1..(Cardinality(fsFiles) + Cardinality(fsDirs) + 2) }

\* the renumbered destination is the conflicting name with "_k" put in
RenumberedByInsertion ==
    \E nn \in WithNumberInserted(outcome.name) :
        outcome.newpath = build_filename(path_get_dirname(Entries[1]), nn)

\* a name whose last character is neither a dot nor a separator is split
\* without loss and renumbered by insertion
PlainNamesSplitWithoutLoss ==
    (Len(inText) > 0 /\ inText[Len(inText)] \notin {".", "/"}) =>
        /\ applied = "split" => SplitWithoutLoss(inText, outcome.stem, outcome.ext)
        /\ applied = "renumber" => RenumberedByInsertion

\* C30: removeExtension and getExtension split a name without loss: when
\* getExtension(f) is not empty, removeExtension(f) + "." + getExtension(f)
\* is f, and else removeExtension(f) is f (names that end in a dot, start
\* with a dot or have whitespace after the last dot included); so the name
\* stem_k.ext renumbered by get_targets differs from the conflicting name
\* only by the "_k" put in.
C30_SplitWithoutLoss ==
    /\ applied = "split" => SplitWithoutLoss(inText, outcome.stem, outcome.ext)
    /\ applied = "renumber" => RenumberedByInsertion

(***************************************************************************)
(* Properties of the execution of a plan.                                  *)
(***************************************************************************)
\* the destinations of the list get_targets returned for the item
Destinations == {item.out[k][2] : k \in 1..Len(item.out)}

\* C24: executing a plan never overwrites an existing file: every
\* destination of a list get_targets returns (the primary, the parameter
\* file, each sidecar) does not exist when the list is computed, under both
\* policies.
C24_DestinationsFree ==
    Processed => \A dest \in Destinations : ~FileExists(dest, item.files0, item.dirs0)

\* the operation on the primary pair of the item failed
PrimaryFailed ==
    /\ Processed
    /\ Len(item.out) > 0
    /\ Len(item.failed) > 0
    /\ item.failed[1] = item.out[1]

\* C25: in copyMoveRequested the parameter file and the sidecars are moved or
\* copied only if the primary was: when the primary pair fails none of the
\* remaining pairs is executed.
C25_CompanionsOnlyAfterPrimary ==
    PrimaryFailed => (item.ops = <<>> /\ item.failed = <<item.out[1]>>)

\* the fields %n of a compiled pattern
CounterFields(pattern) == {k \in 1..Len(pattern) : pattern[k].kind = "Progressive"}

\* the name of the item as get_new_name makes it with the counter at number
RenderedWith(number) ==
    get_new_name([params EXCEPT !.progressive_number = number], item.fn).name

\* C26: in a confirmed batch with sequence start s and a pattern with exactly
\* one %n, the i-th item is rendered with the number s + i - 1, whatever the
\* preview evaluated before and whether or not earlier items were skipped.
C26_ItemNumberedByPosition ==
    (Processed /\ Cardinality(CounterFields(params.pattern)) = 1) =>
        /\ item.plan.newname = RenderedWith(renaming.progressive_number + item.index - 1)
        /\ item.plan.idx = renaming.progressive_number + item.index
        /\ (renaming.pattern = <<"%", "f", "_", "%", "n", "3">> /\ params.basedir = <<>>) =>
               item.plan.newname =
                   removeExtension(path_get_basename(item.fn)) \o <<"_">>
                       \o Padded(renaming.progressive_number + item.index - 1, 3)

\* C26 witness: the preview has evaluated the pattern, the first item
\* img.cr2 was skipped because img_001 exists, and the second item b.cr2 is
\* named b_002
C26_Witness ==
    /\ Processed
    /\ preview.shown
    /\ preview.name = <<"i", "m", "g", "_", "0", "0", "1">>
    /\ renaming.progressive_number = 1
    /\ item.on_existing = SKIP
    /\ params.basedir = <<>>
    /\ <<"i", "m", "g", "_", "0", "0", "1">> \in item.files0
    /\ processed = <<Entries[1], Entries[3]>>
    /\ item.index = 2
    /\ item.plan.newname = <<"b", "_", "0", "0", "2">>

(***************************************************************************)
(* Properties of the Inspector.                                            *)
(***************************************************************************)
\* the buffer the area shows is the value of an entry of its cache
DisplayedIsResident ==
    \E k \in 1..Len(cache_) :
        /\ cache_[k].value = cur_image_
        /\ cache_[k].key = heap[cur_image_].imgPath

\* C27: whenever a pane of the Inspector displays an image (cur_image_ is
\* not null), that image is resident in the cache of that pane, under every
\* interleaving of switchImage (immediate or delayed), of the idle preloads
\* of the next and previous entries and of changes of the active pane in
\* split view, for the capacities 1, 2 and 3.
C27_DisplayedImageResident == cur_image_ # NULL => DisplayedIsResident

\* the step is a run of doSwitchImage by the timeout of switchImage
TimeoutRuns == inspectorDelay > 0 /\ last'.op = "doSwitchImage"

\* the timeout runs doSwitchImage for the path asked for last
RunsForLatestPath == TimeoutRuns => last'.path = next_image_path_

\* the timeout runs doSwitchImage once: the run leaves no timeout connected,
\* and no run follows a run
RunsOnce ==
    TimeoutRuns => (~delayconn_' /\ ~(inspectorDelay > 0 /\ last.op = "doSwitchImage"))

\* C28: with inspectorDelay > 0 switchImage debounces: a request leads to at
\* most one run of doSwitchImage, for the path asked for last (a request
\* that was superseded never gets to the cache or the decoder), and after
\* that run there is no other until the next request.
C28_SwitchDebounced == [][RunsForLatestPath /\ RunsOnce]_vars

\* the requests are debounced: the run is for the path asked for last
RunsOnlyForLatestPath == [][RunsForLatestPath]_vars

\* the indices (0-based) of the entries searched that are not filtered and
\* have the name asked for
MatchingEntries ==
    {k \in 0..(Len(probe.searched) - 1) :
        ~probe.searched[k + 1].filtered /\ probe.searched[k + 1].filename = probe.fullPath}

\* what is stated of the search
SearchAsStated ==
    /\ probe.reads \subseteq 0..(Len(probe.searched) - 1)
    /\ MatchingEntries # {} => (probe.j \in MatchingEntries /\ probe.scheduled)
    /\ MatchingEntries = {} => (probe.j = Len(probe.searched) /\ ~probe.scheduled)

\* the search is as stated when the list searched is not empty
SearchOfEntriesAsStated ==
    (probe.ran /\ Len(probe.searched) > 0) => (~probe.crashed /\ SearchAsStated)

\* a step of switchImage that has searched: cur_image_idx_ of the active
\* pane is the index found, or stays when none was found, and the callback
\* is handed to idle_register_ exactly when one was found
SearchSetsIndex ==
    (probe'.ran /\ probe' # probe /\ ~probe'.crashed) =>
        /\ cur_image_idx_'[pane] = IF probe'.scheduled THEN probe'.j ELSE cur_image_idx_[pane]
        /\ Len(idle') = Len(idle) + (IF probe'.scheduled THEN 1 ELSE 0)

\* C29: the bidirectional search of Inspector::switchImage reads only
\* indices in [0, entries.size()), terminates, and sets cur_image_idx_ to
\* the index of an entry that is not filtered and has the name asked for
\* when there is one; when there is none, cur_image_idx_ stays and no
\* preload is scheduled.  This for every list of entries, the empty one
\* included, and every earlier cur_image_idx_, stale ones included.
C29_SearchInBounds ==
    /\ [](probe.ran => (~probe.crashed /\ SearchAsStated))
    /\ [][SearchSetsIndex]_vars

====
